---- MODULE Spec2Model ----
(***************************************************************************)
(* Model of create-prompt_HeroUI.js: the generator that reads the catalog  *)
(* full.json, renders one Markdown block per component record after a      *)
(* fixed preamble, and writes heroui-prompt-guide.md.                      *)
(*                                                                         *)
(* Text is modelled character by character: a JavaScript string is a       *)
(* sequence of one-character strings.  The three non-ASCII code points of  *)
(* the preamble are written "U+00E2", "U+20AC", "U+201C", and the         *)
(* backtick, which the TLA+ lexer does not take in a string, "U+0060".     *)
(*                                                                         *)
(* Four specifications run the same script: Spec on catalogs of several    *)
(* components, RowSpec on one component with one property of every form,   *)
(* ShapeSpec on parsed objects that may lack fields, RerunSpec on runs     *)
(* started one after the other.                                            *)
(***************************************************************************)
EXTENDS Integers, Sequences, FiniteSets

VARIABLES
    pc,          \* position of the script: load, render, log, done, failed
    fullJson,    \* the catalog source file full.json
    data,        \* const data = JSON.parse(...)
    mdxContent,  \* let mdxContent: the output accumulator
    idx,         \* number of forEach iterations completed
    rows,        \* result of component.props.map(...) in the last iteration
    outFile,     \* the destination file heroui-prompt-guide.md
    log,         \* lines written by console.log
    err,         \* the uncaught exception that ended the run, if any
    fsCalls      \* the calls of fs made so far by the run, in order

vars == <<pc, fullJson, data, mdxContent, idx, rows, outFile, log, err, fsCalls>>

----------------------------------------------------------------------------
(* Bounds of the input space.                                              *)

MaxComponents == 2
MaxTypeLen == 2
MaxRuns == 2

----------------------------------------------------------------------------
(* Generic helpers on character sequences.                                 *)

SeqsUpTo(S, n) == UNION {[1..k -> S] : k \in 0..n}

RECURSIVE Flatten(_)
Flatten(ss) == IF ss = <<>> THEN <<>> ELSE Head(ss) \o Flatten(Tail(ss))

Count(s, ch) == Cardinality({i \in 1..Len(s) : s[i] = ch})

HasChar(s, ch) == \E i \in 1..Len(s) : s[i] = ch

IsPrefix(p, s) == Len(p) <= Len(s) /\ SubSeq(s, 1, Len(p)) = p

----------------------------------------------------------------------------
(* JSON values as JavaScript sees them after JSON.parse.                   *)

JStr(s)  == [t |-> "string",  b |-> FALSE, n |-> 0, s |-> s]
JNum(n)  == [t |-> "number",  b |-> FALSE, n |-> n, s |-> <<>>]
JBool(b) == [t |-> "boolean", b |-> b,     n |-> 0, s |-> <<>>]
Undefined == [t |-> "undefined", b |-> FALSE, n |-> 0, s |-> <<>>]

\* Reading a property of an object: undefined when the object lacks it.
Get(obj, field) == IF field \in DOMAIN obj THEN obj[field] ELSE Undefined

\* ToBoolean, as the conditional operator applies it to prop.default.
Truthy(v) ==
    CASE v.t = "undefined" -> FALSE
      [] v.t = "boolean"   -> v.b
      [] v.t = "number"    -> v.n # 0
      [] v.t = "string"    -> v.s # <<>>

Digit(d) == <<"0", "1", "2", "3", "4", "5", "6", "7", "8", "9">>[d + 1]

RECURSIVE NatToString(_)
NatToString(n) ==
    IF n < 10 THEN <<Digit(n)>> ELSE NatToString(n \div 10) \o <<Digit(n % 10)>>

\* ToString, as template interpolation and Array.prototype.join apply it.
ToString(v) ==
    CASE v.t = "undefined" -> <<"u","n","d","e","f","i","n","e","d">>
      [] v.t = "boolean"   -> IF v.b THEN <<"t","r","u","e">> ELSE <<"f","a","l","s","e">>
      [] v.t = "number"    -> IF v.n < 0 THEN <<"-">> \o NatToString(-v.n) ELSE NatToString(v.n)
      [] v.t = "string"    -> v.s

----------------------------------------------------------------------------
(* The fixed preamble: the initial value of mdxContent.                    *)

Preamble ==
    <<"-","-","-","\n","t","i","t","l","e",":"," ","'","H","e","r","o"," ","U","I"," ","C","o",
      "m","p","o","n","e","n","t"," ","P","r","o","m","p","t"," ","G","u","i","d","e","'","\n",
      "d","e","s","c","r","i","p","t","i","o","n",":"," ","'","A"," ","g","u","i","d","e"," ",
      "f","o","r"," ","A","I"," ","a","g","e","n","t","s"," ","o","n"," ","h","o","w"," ","t",
      "o"," ","u","s","e"," ","H","e","r","o"," ","U","I"," ","c","o","m","p","o","n","e","n",
      "t","s",".","'","\n","-","-","-","\n","\n","#"," ","H","e","r","o"," ","U","I"," ","C",
      "o","m","p","o","n","e","n","t"," ","P","r","o","m","p","t"," ","G","u","i","d","e","\n",
      "\n","Y","o","u"," ","a","r","e"," ","a"," ","s","e","n","i","o","r"," ","f","r","o","n",
      "t","e","n","d"," ","e","n","g","i","n","e","e","r"," ","t","a","s","k","e","d"," ","w",
      "i","t","h"," ","b","u","i","l","d","i","n","g"," ","a"," ","w","e","b"," ","p","a","g",
      "e"," ","u","s","i","n","g"," ","t","h","e"," ","H","e","r","o"," ","U","I"," ","c","o",
      "m","p","o","n","e","n","t"," ","l","i","b","r","a","r","y","."," ","Y","o","u","r"," ",
      "p","r","i","m","a","r","y"," ","g","o","a","l"," ","i","s"," ","t","o"," ","c","r","e",
      "a","t","e"," ","b","e","a","u","t","i","f","u","l",","," ","r","e","s","p","o","n","s",
      "i","v","e",","," ","a","n","d"," ","m","a","i","n","t","a","i","n","a","b","l","e"," ",
      "u","s","e","r"," ","i","n","t","e","r","f","a","c","e","s",".","\n","\n","#","#"," ","Y",
      "o","u","r"," ","W","o","r","k","f","l","o","w","\n","\n","1","."," "," ","*","*","U","n",
      "d","e","r","s","t","a","n","d"," ","t","h","e"," ","G","o","a","l",":","*","*"," ","F",
      "i","r","s","t",","," ","f","u","l","l","y"," ","u","n","d","e","r","s","t","a","n","d",
      " ","t","h","e"," ","u","s","e","r","'","s"," ","r","e","q","u","e","s","t",".","\n","2",
      "."," "," ","*","*","P","l","a","n"," ","t","h","e"," ","L","a","y","o","u","t",":","*",
      "*"," ","B","e","f","o","r","e"," ","w","r","i","t","i","n","g"," ","a","n","y"," ","c",
      "o","d","e",","," ","p","l","a","n"," ","t","h","e"," ","o","v","e","r","a","l","l"," ",
      "l","a","y","o","u","t"," ","o","f"," ","t","h","e"," ","p","a","g","e","."," ","T","h",
      "i","n","k"," ","a","b","o","u","t"," ","t","h","e"," ","s","t","r","u","c","t","u","r",
      "e",","," ","h","i","e","r","a","r","c","h","y",","," ","a","n","d"," ","h","o","w"," ",
      "d","i","f","f","e","r","e","n","t"," ","s","e","c","t","i","o","n","s"," ","w","i","l",
      "l"," ","f","i","t"," ","t","o","g","e","t","h","e","r","."," ","F","o","l","l","o","w",
      " ","t","h","e"," ","D","e","s","i","g","n"," ","S","t","r","a","t","e","g","y"," ","r",
      "u","l","e","s"," ","b","e","l","o","w",".","\n","3","."," "," ","*","*","C","o","m","p",
      "o","n","e","n","t"," ","S","e","l","e","c","t","i","o","n",":","*","*"," ","B","a","s",
      "e","d"," ","o","n"," ","y","o","u","r"," ","l","a","y","o","u","t"," ","p","l","a","n",
      ","," ","s","e","l","e","c","t"," ","t","h","e"," ","m","o","s","t"," ","a","p","p","r",
      "o","p","r","i","a","t","e"," ","H","e","r","o"," ","U","I"," ","c","o","m","p","o","n",
      "e","n","t","s"," ","f","r","o","m"," ","t","h","e"," ","d","o","c","u","m","e","n","t",
      "a","t","i","o","n"," ","b","e","l","o","w","."," ","*","*","Y","o","u"," ","m","u","s",
      "t"," ","p","r","i","o","r","i","t","i","z","e"," ","u","s","i","n","g"," ","H","e","r",
      "o"," ","U","I"," ","c","o","m","p","o","n","e","n","t","s"," ","f","o","r"," ","a","l",
      "l"," ","p","a","r","t","s"," ","o","f"," ","t","h","e"," ","p","a","g","e"," ","w","h",
      "e","r","e","v","e","r"," ","p","o","s","s","i","b","l","e",".","*","*","\n","4","."," ",
      " ","*","*","P","r","o","p"," ","A","s","s","i","g","n","m","e","n","t",":","*","*"," ",
      "F","o","r"," ","e","a","c","h"," ","c","o","m","p","o","n","e","n","t",","," ","d","e",
      "c","i","d","e"," ","w","h","i","c","h"," ","p","r","o","p","s"," ","a","r","e"," ","n",
      "e","c","e","s","s","a","r","y"," ","t","o"," ","a","c","h","i","e","v","e"," ","t","h",
      "e"," ","d","e","s","i","r","e","d"," ","f","u","n","c","t","i","o","n","a","l","i","t",
      "y"," ","a","n","d"," ","a","p","p","e","a","r","a","n","c","e","."," ","Y","o","u"," ",
      "h","a","v","e"," ","a","l","l"," ","t","h","e"," ","d","o","c","u","m","e","n","t","a",
      "t","i","o","n"," ","y","o","u"," ","n","e","e","d",";"," ","d","o"," ","n","o","t"," ",
      "a","s","k"," ","t","h","e"," ","u","s","e","r"," ","f","o","r"," ","p","r","o","p","s",
      "."," ","M","a","k","e"," ","e","d","u","c","a","t","e","d"," ","d","e","c","i","s","i",
      "o","n","s"," ","b","a","s","e","d"," ","o","n"," ","t","h","e"," ","c","o","n","t","e",
      "x","t",".","\n","5","."," "," ","*","*","C","o","d","e"," ","G","e","n","e","r","a","t",
      "i","o","n",":","*","*"," ","W","r","i","t","e"," ","t","h","e"," ","c","o","m","p","l",
      "e","t","e"," ","R","e","a","c","t"," ","c","o","d","e"," ","f","o","r"," ","t","h","e",
      " ","p","a","g","e",","," ","i","m","p","o","r","t","i","n","g"," ","a","l","l"," ","n",
      "e","c","e","s","s","a","r","y"," ","c","o","m","p","o","n","e","n","t","s"," ","f","r",
      "o","m"," ","U+0060","@","h","e","r","o","u","i","/","r","e","a","c","t","U+0060",".",
      "\n","\n","#","#"," ","D","e","s","i","g","n"," ","S","t","r","a","t","e","g","y","\n",
      "\n","#","#","#"," ","R","e","s","p","o","n","s","i","v","e"," ","D","e","s","i","g","n",
      ":"," ","M","o","b","i","l","e","-","F","i","r","s","t","\n","Y","o","u"," ","*","*","m",
      "u","s","t","*","*"," ","d","e","s","i","g","n"," ","m","o","b","i","l","e","-","f","i",
      "r","s","t","."," ","S","t","a","r","t"," ","w","i","t","h"," ","t","h","e"," ","b","a",
      "s","e"," ","s","t","y","l","e","s"," ","f","o","r"," ","m","o","b","i","l","e"," ","s",
      "c","r","e","e","n","s"," ","a","n","d"," ","t","h","e","n"," ","u","s","e"," ","T","a",
      "i","l","w","i","n","d","'","s"," ","r","e","s","p","o","n","s","i","v","e"," ","b","r",
      "e","a","k","p","o","i","n","t","s"," ","(","U+0060","s","m",":","U+0060",","," ",
      "U+0060","m","d",":","U+0060",","," ","U+0060","l","g",":","U+0060",","," ","U+0060","x",
      "l",":","U+0060",")"," ","t","o"," ","a","d","a","p","t"," ","t","h","e"," ","l","a","y",
      "o","u","t"," ","f","o","r"," ","l","a","r","g","e","r"," ","s","c","r","e","e","n","s",
      ".","\n","\n","#","#","#"," ","L","a","y","o","u","t",":"," ","F","l","e","x","b","o","x",
      " ","&"," ","G","r","i","d","\n","Y","o","u"," ","*","*","m","u","s","t","*","*"," ","a",
      "l","w","a","y","s"," ","t","h","i","n","k"," ","i","n"," ","t","e","r","m","s"," ","o",
      "f"," ","F","l","e","x","b","o","x"," ","a","n","d"," ","G","r","i","d"," ","f","o","r",
      " ","l","a","y","o","u","t","s",".","\n","*"," "," "," ","*","*","G","r","i","d",":","*",
      "*"," ","U","s","e"," ","f","o","r"," ","m","a","j","o","r",","," ","l","a","r","g","e",
      "-","s","c","a","l","e"," ","p","a","g","e"," ","l","a","y","o","u","t","s"," ","a","n",
      "d"," ","s","t","r","u","c","t","u","r","e","s",".","\n","*"," "," "," ","*","*","F","l",
      "e","x","b","o","x",":","*","*"," ","U","s","e"," ","f","o","r"," ","s","m","a","l","l",
      "e","r"," ","c","o","m","p","o","n","e","n","t"," ","a","r","r","a","n","g","e","m","e",
      "n","t","s"," ","a","n","d"," ","a","l","i","g","n","m","e","n","t","s"," ","w","i","t",
      "h","i","n"," ","a"," ","c","o","n","t","a","i","n","e","r",".","\n","\n","#","#"," ","S",
      "t","y","l","i","n","g"," ","R","u","l","e","s","\n","\n","*"," "," "," ","*","*","A","l",
      "w","a","y","s"," ","U","s","e"," ","S","e","m","a","n","t","i","c"," ","C","o","l","o",
      "r","s",":","*","*"," ","S","e","m","a","n","t","i","c"," ","c","o","l","o","r","s"," ",
      "a","r","e"," ","a","v","a","i","l","a","b","l","e"," ","f","o","r"," ","m","o","s","t",
      " ","c","o","m","p","o","n","e","n","t","s"," ","(","v","i","a"," ","t","h","e"," ",
      "U+0060","c","o","l","o","r","U+0060"," ","p","r","o","p",")"," ","a","n","d"," ","u","t",
      "i","l","i","t","y"," ","c","l","a","s","s","e","s"," ","(","U+0060","b","g","-","p","r",
      "i","m","a","r","y","U+0060",","," ","U+0060","t","e","x","t","-","d","a","n","g","e","r",
      "-","5","0","0","U+0060",","," ","e","t","c",".",")","."," ","Y","o","u"," ","*","*","m",
      "u","s","t","*","*"," ","u","s","e"," ","t","h","e","m"," ","a","t"," ","a","l","l"," ",
      "t","i","m","e","s"," ","t","o"," ","e","n","s","u","r","e"," ","t","h","e","m","e"," ",
      "c","o","n","s","i","s","t","e","n","c","y",".","\n","*"," "," "," ","*","*","P","r","i",
      "o","r","i","t","i","z","e"," ","t","h","e"," ","U+0060","c","o","l","o","r","U+0060"," ",
      "P","r","o","p",":","*","*"," ","W","h","e","n"," ","a"," ","c","o","m","p","o","n","e",
      "n","t"," ","s","u","p","p","o","r","t","s"," ","a"," ","U+0060","c","o","l","o","r",
      "U+0060"," ","p","r","o","p",","," ","i","t","'","s"," ","t","h","e"," ","p","r","e","f",
      "e","r","r","e","d"," ","w","a","y"," ","t","o"," ","a","p","p","l","y"," ","s","e","m",
      "a","n","t","i","c"," ","c","o","l","o","r","s",".","\n","*"," "," "," ","*","*","U","s",
      "e"," ","S","e","m","a","n","t","i","c"," ","C","o","l","o","r"," ","C","l","a","s","s",
      "e","s",":","*","*"," ","W","h","e","n"," ","c","u","s","t","o","m","i","z","i","n","g",
      " ","w","i","t","h"," ","U+0060","c","l","a","s","s","N","a","m","e","U+0060"," ","o","r",
      " ","U+0060","c","l","a","s","s","N","a","m","e","s","U+0060",","," ","u","s","e"," ","t",
      "h","e","m","e","-","a","w","a","r","e"," ","s","e","m","a","n","t","i","c"," ","c","o",
      "l","o","r"," ","u","t","i","l","i","t","i","e","s",".","\n","*"," "," "," ","*","*","N",
      "o"," ","A","b","s","o","l","u","t","e"," ","C","o","l","o","r","s",":","*","*"," ","N",
      "E","V","E","R"," ","u","s","e"," ","a","b","s","o","l","u","t","e"," ","o","r"," ","s",
      "p","e","c","i","f","i","c"," ","c","o","l","o","r"," ","c","l","a","s","s","e","s"," ",
      "(","e",".","g",".",","," ","U+0060","b","g","-","r","e","d","-","5","0","0","U+0060",",",
      " ","U+0060","t","e","x","t","-","g","r","e","e","n","-","6","0","0","U+0060",")","."," ",
      "T","h","i","s"," ","b","r","e","a","k","s"," ","t","h","e"," ","t","h","e","m","e"," ",
      "a","n","d"," ","c","r","e","a","t","e","s"," ","i","n","c","o","n","s","i","s","t","e",
      "n","t"," ","U","I",".","\n","\n","-","-","-","\n","\n","#","#"," ","C","o","l","o","r",
      " ","S","y","s","t","e","m"," ","D","e","e","p"," ","D","i","v","e","\n","\n","T","o"," ",
      "e","f","f","e","c","t","i","v","e","l","y"," ","u","s","e"," ","H","e","r","o"," ","U",
      "I","'","s"," ","c","o","l","o","r"," ","s","y","s","t","e","m",","," ","i","t","'","s",
      " ","i","m","p","o","r","t","a","n","t"," ","t","o"," ","u","n","d","e","r","s","t","a",
      "n","d"," ","i","t","s"," ","s","t","r","u","c","t","u","r","e","."," ","T","h","e"," ",
      "c","o","l","o","r","s"," ","a","r","e"," ","d","e","f","i","n","e","d"," ","b","y"," ",
      "t","h","e"," ","f","o","l","l","o","w","i","n","g"," ","T","y","p","e","S","c","r","i",
      "p","t"," ","t","y","p","e","s",":","\n","\n","U+0060","U+0060","U+0060","t","y","p","e",
      "s","c","r","i","p","t","\n","t","y","p","e"," ","C","o","l","o","r","S","c","a","l","e",
      " ","="," ","{","\n"," "," ","5","0",":"," ","s","t","r","i","n","g",";","\n"," "," ","1",
      "0","0",":"," ","s","t","r","i","n","g",";","\n"," "," ","2","0","0",":"," ","s","t","r",
      "i","n","g",";","\n"," "," ","3","0","0",":"," ","s","t","r","i","n","g",";","\n"," "," ",
      "4","0","0",":"," ","s","t","r","i","n","g",";","\n"," "," ","5","0","0",":"," ","s","t",
      "r","i","n","g",";","\n"," "," ","6","0","0",":"," ","s","t","r","i","n","g",";","\n"," ",
      " ","7","0","0",":"," ","s","t","r","i","n","g",";","\n"," "," ","8","0","0",":"," ","s",
      "t","r","i","n","g",";","\n"," "," ","9","0","0",":"," ","s","t","r","i","n","g",";","\n",
      " "," ","f","o","r","e","g","r","o","u","n","d",":"," ","s","t","r","i","n","g",";"," ",
      "/","/"," ","c","o","n","t","r","a","s","t"," ","c","o","l","o","r","\n"," "," ","D","E",
      "F","A","U","L","T",":"," ","s","t","r","i","n","g",";","\n","}",";","\n","\n","t","y",
      "p","e"," ","B","a","s","e","C","o","l","o","r","s"," ","="," ","{","\n"," "," ","b","a",
      "c","k","g","r","o","u","n","d",":"," ","C","o","l","o","r","S","c","a","l","e",";"," ",
      "/","/"," ","t","h","e"," ","p","a","g","e"," ","b","a","c","k","g","r","o","u","n","d",
      " ","c","o","l","o","r","\n"," "," ","f","o","r","e","g","r","o","u","n","d",":"," ","C",
      "o","l","o","r","S","c","a","l","e",";"," ","/","/"," ","t","h","e"," ","p","a","g","e",
      " ","t","e","x","t"," ","c","o","l","o","r","\n"," "," ","d","i","v","i","d","e","r",":",
      " ","C","o","l","o","r","S","c","a","l","e",";"," ","/","/"," ","u","s","e","d"," ","f",
      "o","r"," ","d","i","v","i","d","e","r"," ","a","n","d"," ","s","i","n","g","l","e"," ",
      "l","i","n","e"," ","b","o","r","d","e","r","\n"," "," ","o","v","e","r","l","a","y",":",
      " ","C","o","l","o","r","S","c","a","l","e",";"," ","/","/"," ","u","s","e","d"," ","f",
      "o","r"," ","m","o","d","a","l",","," ","p","o","p","o","v","e","r",","," ","e","t","c",
      ".","\n"," "," ","f","o","c","u","s",":"," ","C","o","l","o","r","S","c","a","l","e",";",
      " ","/","/"," ","u","s","e","d"," ","f","o","r"," ","f","o","c","u","s"," ","s","t","a",
      "t","e"," ","o","u","t","l","i","n","e","\n"," "," ","c","o","n","t","e","n","t","1",":",
      " ","C","o","l","o","r","S","c","a","l","e",";"," ","/","/"," ","u","s","e","d"," ","f",
      "o","r"," ","c","a","r","d",","," ","m","o","d","a","l",","," ","p","o","p","o","v","e",
      "r",","," ","e","t","c",".","\n"," "," ","c","o","n","t","e","n","t","2",":"," ","C","o",
      "l","o","r","S","c","a","l","e",";","\n"," "," ","c","o","n","t","e","n","t","3",":"," ",
      "C","o","l","o","r","S","c","a","l","e",";","\n"," "," ","c","o","n","t","e","n","t","4",
      ":"," ","C","o","l","o","r","S","c","a","l","e",";","\n","}",";","\n","\n","/","/"," ",
      "b","r","a","n","d"," ","c","o","l","o","r","s","\n","t","y","p","e"," ","T","h","e","m",
      "e","C","o","l","o","r","s"," ","="," ","B","a","s","e","C","o","l","o","r","s"," ","&",
      " ","{","\n"," "," ","d","e","f","a","u","l","t",":"," ","C","o","l","o","r","S","c","a",
      "l","e",";","\n"," "," ","p","r","i","m","a","r","y",":"," ","C","o","l","o","r","S","c",
      "a","l","e",";","\n"," "," ","s","e","c","o","n","d","a","r","y",":"," ","C","o","l","o",
      "r","S","c","a","l","e",";","\n"," "," ","s","u","c","c","e","s","s",":"," ","C","o","l",
      "o","r","S","c","a","l","e",";","\n"," "," ","w","a","r","n","i","n","g",":"," ","C","o",
      "l","o","r","S","c","a","l","e",";","\n"," "," ","d","a","n","g","e","r",":"," ","C","o",
      "l","o","r","S","c","a","l","e",";","\n","}",";","\n","U+0060","U+0060","U+0060","\n",
      "\n","#","#","#"," ","W","h","e","n"," ","t","o"," ","U","s","e"," ","W","h","i","c","h",
      " ","C","o","l","o","r","s","\n","\n","*"," "," "," ","*","*","B","a","s","e"," ","C","o",
      "l","o","r","s"," ","(","U+0060","b","a","c","k","g","r","o","u","n","d","U+0060",","," ",
      "U+0060","f","o","r","e","g","r","o","u","n","d","U+0060",","," ","U+0060","c","o","n",
      "t","e","n","t","1","-","4","U+0060",","," ","e","t","c",".",")",":","*","*"," ","U","s",
      "e"," ","t","h","e","s","e"," ","f","o","r"," ","g","e","n","e","r","a","l"," ","l","a",
      "y","o","u","t"," ","a","n","d"," ","s","t","r","u","c","t","u","r","a","l"," ","e","l",
      "e","m","e","n","t","s","."," ","F","o","r"," ","e","x","a","m","p","l","e",","," ",
      "U+0060","b","g","-","b","a","c","k","g","r","o","u","n","d","U+0060"," ","f","o","r"," ",
      "t","h","e"," ","p","a","g","e"," ","b","a","c","k","g","r","o","u","n","d",","," ",
      "U+0060","t","e","x","t","-","f","o","r","e","g","r","o","u","n","d","U+0060"," ","f","o",
      "r"," ","b","o","d","y"," ","t","e","x","t",","," ","a","n","d"," ","U+0060","b","g","-",
      "c","o","n","t","e","n","t","1","U+0060"," ","f","o","r"," ","c","a","r","d"," ","b","a",
      "c","k","g","r","o","u","n","d","s",".","\n","*"," "," "," ","*","*","T","h","e","m","e",
      " ","C","o","l","o","r","s"," ","(","U+0060","p","r","i","m","a","r","y","U+0060",","," ",
      "U+0060","s","e","c","o","n","d","a","r","y","U+0060",","," ","U+0060","s","u","c","c",
      "e","s","s","U+0060",","," ","e","t","c",".",")",":","*","*"," ","U","s","e"," ","t","h",
      "e","s","e"," ","f","o","r"," ","i","n","t","e","r","a","c","t","i","v","e"," ","e","l",
      "e","m","e","n","t","s",","," ","b","r","a","n","d","i","n","g",","," ","a","n","d"," ",
      "t","o"," ","c","o","n","v","e","y"," ","s","t","a","t","u","s","."," ","F","o","r"," ",
      "e","x","a","m","p","l","e",","," ","U+0060","p","r","i","m","a","r","y","U+0060"," ","f",
      "o","r"," ","m","a","i","n"," ","a","c","t","i","o","n"," ","b","u","t","t","o","n","s",
      ","," ","U+0060","d","a","n","g","e","r","U+0060"," ","f","o","r"," ","e","r","r","o","r",
      " ","m","e","s","s","a","g","e","s",","," ","a","n","d"," ","U+0060","s","u","c","c","e",
      "s","s","U+0060"," ","f","o","r"," ","c","o","n","f","i","r","m","a","t","i","o","n"," ",
      "i","n","d","i","c","a","t","o","r","s",".","\n","\n","-","-","-","\n","\n","#","#"," ",
      "C","o","l","o","r","s"," ","v","i","a"," ","U+0060","c","o","l","o","r","U+0060"," ","P",
      "r","o","p","\n","\n","H","e","r","o"," ","U","I"," ","u","s","e","s"," ","a"," ","s","e",
      "m","a","n","t","i","c"," ","c","o","l","o","r"," ","s","y","s","t","e","m","."," ","F",
      "o","r"," ","c","o","m","p","o","n","e","n","t","s"," ","t","h","a","t"," ","s","u","p",
      "p","o","r","t"," ","i","t",","," ","t","h","e"," ","e","a","s","i","e","s","t"," ","w",
      "a","y"," ","t","o"," ","a","p","p","l","y"," ","c","o","l","o","r"," ","i","s"," ","w",
      "i","t","h"," ","t","h","e"," ","U+0060","c","o","l","o","r","U+0060"," ","p","r","o","p",
      ".","\n","\n","#","#","#"," ","A","v","a","i","l","a","b","l","e"," ","C","o","l","o","r",
      "s","\n","\n","*"," "," "," ","U+0060","d","e","f","a","u","l","t","U+0060","\n","*"," ",
      " "," ","U+0060","p","r","i","m","a","r","y","U+0060","\n","*"," "," "," ","U+0060","s",
      "e","c","o","n","d","a","r","y","U+0060","\n","*"," "," "," ","U+0060","s","u","c","c",
      "e","s","s","U+0060","\n","*"," "," "," ","U+0060","w","a","r","n","i","n","g","U+0060",
      "\n","*"," "," "," ","U+0060","d","a","n","g","e","r","U+0060","\n","\n","#","#","#"," ",
      "H","o","w"," ","t","o"," ","U","s","e","\n","\n","U+0060","U+0060","U+0060","t","y","p",
      "e","s","c","r","i","p","t","\n","<","B","u","t","t","o","n"," ","c","o","l","o","r","=",
      "\"","p","r","i","m","a","r","y","\"",">","P","r","i","m","a","r","y"," ","B","u","t","t",
      "o","n","<","/","B","u","t","t","o","n",">","\n","<","C","h","i","p"," ","c","o","l","o",
      "r","=","\"","s","u","c","c","e","s","s","\"",">","S","u","c","c","e","s","s"," ","C","h",
      "i","p","<","/","C","h","i","p",">","\n","<","S","p","i","n","n","e","r"," ","c","o","l",
      "o","r","=","\"","d","a","n","g","e","r","\""," ","/",">","\n","U+0060","U+0060","U+0060",
      "\n","\n","-","-","-","\n","\n","#","#"," ","C","o","l","o","r","s"," ","v","i","a"," ",
      "U+0060","c","l","a","s","s","N","a","m","e","U+0060","\n","\n","F","o","r"," ","m","o",
      "r","e"," ","g","r","a","n","u","l","a","r"," ","c","o","n","t","r","o","l",","," ","y",
      "o","u"," ","c","a","n"," ","u","s","e"," ","s","e","m","a","n","t","i","c"," ","c","o",
      "l","o","r"," ","u","t","i","l","i","t","y"," ","c","l","a","s","s","e","s"," ","d","i",
      "r","e","c","t","l","y","."," ","T","h","e","s","e"," ","c","l","a","s","s","e","s"," ",
      "a","r","e"," ","t","h","e","m","e","-","a","w","a","r","e"," ","a","n","d"," ","w","i",
      "l","l"," ","a","d","a","p","t"," ","t","o"," ","l","i","g","h","t","/","d","a","r","k",
      " ","m","o","d","e",".","\n","\n","#","#","#"," ","T","e","x","t"," ","C","o","l","o","r",
      "\n","-"," ","A","p","p","l","y"," ","p","r","i","m","a","r","y"," ","t","e","x","t",":",
      " ","U+0060","<","p"," ","c","l","a","s","s","N","a","m","e","=","\"","t","e","x","t","-",
      "p","r","i","m","a","r","y","\"",">",".",".",".","<","/","p",">","U+0060","\n","-"," ",
      "S","h","a","d","e"," ","v","a","r","i","a","n","t",":"," ","U+0060","<","p"," ","c","l",
      "a","s","s","N","a","m","e","=","\"","t","e","x","t","-","p","r","i","m","a","r","y","-",
      "6","0","0","\"",">",".",".",".","<","/","p",">","U+0060","\n","\n","#","#","#"," ","B",
      "a","c","k","g","r","o","u","n","d"," ","C","o","l","o","r","\n","-"," ","S","o","l","i",
      "d"," ","b","a","c","k","g","r","o","u","n","d",":"," ","U+0060","<","d","i","v"," ","c",
      "l","a","s","s","N","a","m","e","=","\"","b","g","-","s","u","c","c","e","s","s","\"",">",
      ".",".",".","<","/","d","i","v",">","U+0060","\n","-"," ","W","i","t","h"," ","s","h","a",
      "d","e",":"," ","U+0060","<","d","i","v"," ","c","l","a","s","s","N","a","m","e","=","\"",
      "b","g","-","s","u","c","c","e","s","s","-","1","0","0","\"",">",".",".",".","<","/","d",
      "i","v",">","U+0060","\n","\n","#","#","#"," ","B","o","r","d","e","r"," ","C","o","l",
      "o","r","\n","-"," ","S","e","m","a","n","t","i","c"," ","b","o","r","d","e","r",":"," ",
      "U+0060","<","d","i","v"," ","c","l","a","s","s","N","a","m","e","=","\"","b","o","r","d",
      "e","r"," ","b","o","r","d","e","r","-","w","a","r","n","i","n","g","\"",">",".",".",".",
      "<","/","d","i","v",">","U+0060","\n","-"," ","S","h","a","d","e"," ","b","o","r","d","e",
      "r",":"," ","U+0060","<","d","i","v"," ","c","l","a","s","s","N","a","m","e","=","\"","b",
      "o","r","d","e","r"," ","b","o","r","d","e","r","-","w","a","r","n","i","n","g","-","4",
      "0","0","\"",">",".",".",".","<","/","d","i","v",">","U+0060","\n","\n","#","#","#"," ",
      "H","o","v","e","r","/","F","o","c","u","s"," ","S","t","a","t","e","s","\n","-"," ","H",
      "o","v","e","r"," ","b","a","c","k","g","r","o","u","n","d",":"," ","U+0060","<","b","u",
      "t","t","o","n"," ","c","l","a","s","s","N","a","m","e","=","\"","h","o","v","e","r",":",
      "b","g","-","s","e","c","o","n","d","a","r","y","-","2","0","0","\"",">",".",".",".","<",
      "/","b","u","t","t","o","n",">","U+0060","\n","-"," ","F","o","c","u","s"," ","r","i","n",
      "g",":"," ","U+0060","<","i","n","p","u","t"," ","c","l","a","s","s","N","a","m","e","=",
      "\"","f","o","c","u","s",":","o","u","t","l","i","n","e","-","n","o","n","e"," ","f","o",
      "c","u","s",":","r","i","n","g","-","2"," ","f","o","c","u","s",":","r","i","n","g","-",
      "p","r","i","m","a","r","y","-","5","0","0","\""," ","/",">","U+0060","\n","\n","#","#",
      "#"," ","C","o","m","p","o","n","e","n","t","s"," ","&"," ","S","l","o","t","s","\n","-",
      " ","B","u","t","t","o","n"," ","w","i","t","h"," ","c","o","l","o","r"," ","p","r","o",
      "p",":"," ","U+0060","<","B","u","t","t","o","n"," ","c","o","l","o","r","=","\"","p","r",
      "i","m","a","r","y","\"",">","C","l","i","c","k","<","/","B","u","t","t","o","n",">",
      "U+0060","\n","-"," ","S","l","o","t"," ","o","v","e","r","r","i","d","e",":"," ",
      "U+0060","<","C","i","r","c","u","l","a","r","P","r","o","g","r","e","s","s"," ","c","l",
      "a","s","s","N","a","m","e","s","=","{","{"," ","i","n","d","i","c","a","t","o","r",":",
      " ","'","s","t","r","o","k","e","-","d","a","n","g","e","r","-","5","0","0","'"," ","}",
      "}"," ","/",">","U+0060","\n","\n","#","#","#"," ","T","h","e","m","e","-","S","c","o",
      "p","e","d"," ","S","t","y","l","i","n","g","\n","-"," ","A","p","p","l","y"," ","s","t",
      "y","l","e","s"," ","b","a","s","e","d"," ","o","n"," ","t","h","e","m","e",":"," ",
      "U+0060","<","d","i","v"," ","c","l","a","s","s","N","a","m","e","=","\"","d","a","r","k",
      ":","b","g","-","d","e","f","a","u","l","t","-","8","0","0","\"",">",".",".",".","<","/",
      "d","i","v",">","U+0060","\n","\n","*","*","N","o","t","e",":","*","*"," ","S","e","m",
      "a","n","t","i","c"," ","c","o","l","o","r","s"," ","a","r","e"," ","a","v","a","i","l",
      "a","b","l","e"," ","a","s"," ","u","t","i","l","i","t","i","e","s"," ","l","i","k","e",
      " ","U+0060","t","e","x","t","-","*","U+0060",","," ","U+0060","b","g","-","*","U+0060",
      ","," ","U+0060","b","o","r","d","e","r","-","*","U+0060"," ","w","i","t","h"," ","s","h",
      "a","d","e","s"," ","5","0","U+00E2","U+20AC","U+201C","9","0","0","."," ","Y","o","u",
      " ","c","a","n"," ","a","l","s","o"," ","u","s","e"," ","C","S","S"," ","v","a","r","i",
      "a","b","l","e","s"," ","l","i","k","e"," ","U+0060","v","a","r","(","-","-","h","e","r",
      "o","u","i","-","p","r","i","m","a","r","y","-","5","0","0",")","U+0060",".","\n","\n",
      "-","-","-","\n","\n","#","#"," ","O","v","e","r","r","i","d","i","n","g"," ","S","t","y",
      "l","e","s","\n","\n","Y","o","u"," ","c","a","n"," ","o","v","e","r","r","i","d","e"," ",
      "t","h","e"," ","d","e","f","a","u","l","t"," ","s","t","y","l","e","s"," ","o","f"," ",
      "a"," ","c","o","m","p","o","n","e","n","t"," ","b","y"," ","p","a","s","s","i","n","g",
      " ","y","o","u","r"," ","o","w","n"," ","c","l","a","s","s"," ","n","a","m","e","s"," ",
      "t","o"," ","t","h","e"," ","U+0060","c","l","a","s","s","N","a","m","e","U+0060"," ","p",
      "r","o","p",","," ","o","r"," ","t","o"," ","t","h","e"," ","U+0060","c","l","a","s","s",
      "N","a","m","e","s","U+0060"," ","p","r","o","p"," ","f","o","r"," ","c","o","m","p","o",
      "n","e","n","t","s"," ","w","i","t","h"," ","s","l","o","t","s",".","\n","\n","#","#","#",
      " ","O","v","e","r","r","i","d","i","n","g"," ","a"," ","c","o","m","p","o","n","e","n",
      "t"," ","w","i","t","h"," ","U+0060","c","l","a","s","s","N","a","m","e","U+0060","\n",
      "\n","F","o","r"," ","c","o","m","p","o","n","e","n","t","s"," ","w","i","t","h","o","u",
      "t"," ","s","l","o","t","s",","," ","y","o","u"," ","c","a","n"," ","u","s","e"," ","t",
      "h","e"," ","U+0060","c","l","a","s","s","N","a","m","e","U+0060"," ","p","r","o","p"," ",
      "t","o"," ","a","p","p","l","y"," ","c","u","s","t","o","m"," ","s","t","y","l","e","s",
      ".","\n","\n","U+0060","U+0060","U+0060","t","y","p","e","s","c","r","i","p","t","\n","i",
      "m","p","o","r","t"," ","{","B","u","t","t","o","n","}"," ","f","r","o","m"," ","\"","@",
      "h","e","r","o","u","i","/","r","e","a","c","t","\"",";","\n","\n","e","x","p","o","r",
      "t"," ","d","e","f","a","u","l","t"," ","f","u","n","c","t","i","o","n"," ","A","p","p",
      "(",")"," ","{","\n"," "," ","r","e","t","u","r","n"," ","(","\n"," "," "," "," ","<","B",
      "u","t","t","o","n","\n"," "," "," "," "," "," ","d","i","s","a","b","l","e","R","i","p",
      "p","l","e","\n"," "," "," "," "," "," ","c","l","a","s","s","N","a","m","e","=","\"","r",
      "e","l","a","t","i","v","e"," ","o","v","e","r","f","l","o","w","-","v","i","s","i","b",
      "l","e"," ","r","o","u","n","d","e","d","-","f","u","l","l"," ","h","o","v","e","r",":",
      "-","t","r","a","n","s","l","a","t","e","-","y","-","1"," ","p","x","-","1","2"," ","s",
      "h","a","d","o","w","-","s","m"," ","b","g","-","b","a","c","k","g","r","o","u","n","d",
      "/","3","0"," ","a","f","t","e","r",":","c","o","n","t","e","n","t","-","[","'","'","]",
      " ","a","f","t","e","r",":","a","b","s","o","l","u","t","e"," ","a","f","t","e","r",":",
      "r","o","u","n","d","e","d","-","f","u","l","l"," ","a","f","t","e","r",":","i","n","s",
      "e","t","-","0"," ","a","f","t","e","r",":","b","g","-","b","a","c","k","g","r","o","u",
      "n","d","/","4","0"," ","a","f","t","e","r",":","z","-","[","-","1","]"," ","a","f","t",
      "e","r",":","t","r","a","n","s","i","t","i","o","n"," ","a","f","t","e","r",":","d","u",
      "r","a","t","i","o","n","-","5","0","0","!"," ","h","o","v","e","r",":","a","f","t","e",
      "r",":","s","c","a","l","e","-","1","5","0"," ","h","o","v","e","r",":","a","f","t","e",
      "r",":","o","p","a","c","i","t","y","-","0","\"","\n"," "," "," "," "," "," ","s","i","z",
      "e","=","\"","l","g","\"","\n"," "," "," "," ",">","\n"," "," "," "," "," "," ","P","r",
      "e","s","s"," ","m","e","\n"," "," "," "," ","<","/","B","u","t","t","o","n",">","\n"," ",
      " ",")",";","\n","}","\n","U+0060","U+0060","U+0060","\n","\n","#","#","#"," ","W","h",
      "a","t"," ","i","s"," ","a"," ","S","l","o","t","?","\n","\n","A"," ","s","l","o","t"," ",
      "i","s"," ","a"," ","p","a","r","t"," ","o","f"," ","a"," ","c","o","m","p","o","n","e",
      "n","t"," ","t","h","a","t"," ","c","a","n"," ","b","e"," ","s","t","y","l","e","d"," ",
      "s","e","p","a","r","a","t","e","l","y"," ","u","s","i","n","g"," ","t","h","e"," ",
      "U+0060","c","l","a","s","s","N","a","m","e","s","U+0060"," ","p","r","o","p","."," ","F",
      "o","r"," ","e","x","a","m","p","l","e",","," ","t","h","e"," ","U+0060","C","i","r","c",
      "u","l","a","r","P","r","o","g","r","e","s","s","U+0060"," ","c","o","m","p","o","n","e",
      "n","t"," ","h","a","s"," ","s","l","o","t","s"," ","l","i","k","e"," ","U+0060","t","r",
      "a","c","k","U+0060",","," ","U+0060","i","n","d","i","c","a","t","o","r","U+0060",",",
      " ","a","n","d"," ","U+0060","v","a","l","u","e","U+0060"," ","t","h","a","t"," ","c","a",
      "n"," ","e","a","c","h"," ","b","e"," ","s","t","y","l","e","d"," ","i","n","d","e","p",
      "e","n","d","e","n","t","l","y",".","\n","\n","Y","o","u"," ","w","i","l","l"," ","f","i",
      "n","d"," ","a"," ","U+0060","S","l","o","t","s","U+0060"," ","s","e","c","t","i","o","n",
      " ","i","n"," ","t","h","e"," ","d","o","c","u","m","e","n","t","a","t","i","o","n"," ",
      "o","f"," ","e","a","c","h"," ","c","o","m","p","o","n","e","n","t"," ","t","h","a","t",
      " ","h","a","s"," ","s","l","o","t","s",".","\n","\n","#","#","#"," ","H","o","w"," ","t",
      "o"," ","U","s","e"," ","S","l","o","t","s","\n","\n","T","o"," ","s","t","y","l","e"," ",
      "a"," ","s","p","e","c","i","f","i","c"," ","s","l","o","t",","," ","p","a","s","s"," ",
      "a","n"," ","o","b","j","e","c","t"," ","t","o"," ","t","h","e"," ","U+0060","c","l","a",
      "s","s","N","a","m","e","s","U+0060"," ","p","r","o","p"," ","w","h","e","r","e"," ","t",
      "h","e"," ","k","e","y"," ","i","s"," ","t","h","e"," ","n","a","m","e"," ","o","f"," ",
      "t","h","e"," ","s","l","o","t"," ","a","n","d"," ","t","h","e"," ","v","a","l","u","e",
      " ","i","s"," ","a"," ","s","t","r","i","n","g"," ","o","f"," ","c","l","a","s","s"," ",
      "n","a","m","e","s",".","\n","\n","U+0060","U+0060","U+0060","t","y","p","e","s","c","r",
      "i","p","t","\n","i","m","p","o","r","t"," ","{","C","i","r","c","u","l","a","r","P","r",
      "o","g","r","e","s","s",","," ","C","a","r","d",","," ","C","a","r","d","B","o","d","y",
      "}"," ","f","r","o","m"," ","\"","@","h","e","r","o","u","i","/","r","e","a","c","t","\"",
      ";","\n","\n","e","x","p","o","r","t"," ","d","e","f","a","u","l","t"," ","f","u","n","c",
      "t","i","o","n"," ","A","p","p","(",")"," ","{","\n"," "," ","r","e","t","u","r","n"," ",
      "(","\n"," "," "," "," ","<","C","a","r","d"," ","c","l","a","s","s","N","a","m","e","=",
      "\"","w","-","[","2","4","0","p","x","]"," ","h","-","[","2","4","0","p","x","]"," ","b",
      "g","-","l","i","n","e","a","r","-","t","o","-","b","r"," ","f","r","o","m","-","v","i",
      "o","l","e","t","-","5","0","0"," ","t","o","-","f","u","c","h","s","i","a","-","5","0",
      "0","\"",">","\n"," "," "," "," "," "," ","<","C","a","r","d","B","o","d","y"," ","c","l",
      "a","s","s","N","a","m","e","=","\"","j","u","s","t","i","f","y","-","c","e","n","t","e",
      "r"," ","i","t","e","m","s","-","c","e","n","t","e","r"," ","p","y","-","0","\"",">","\n",
      " "," "," "," "," "," "," "," ","<","C","i","r","c","u","l","a","r","P","r","o","g","r",
      "e","s","s","\n"," "," "," "," "," "," "," "," "," "," ","c","l","a","s","s","N","a","m",
      "e","s","=","{","{","\n"," "," "," "," "," "," "," "," "," "," "," "," ","s","v","g",":",
      " ","\"","w","-","3","6"," ","h","-","3","6"," ","d","r","o","p","-","s","h","a","d","o",
      "w","-","m","d","\"",",","\n"," "," "," "," "," "," "," "," "," "," "," "," ","i","n","d",
      "i","c","a","t","o","r",":"," ","\"","s","t","r","o","k","e","-","w","h","i","t","e","\"",
      ",","\n"," "," "," "," "," "," "," "," "," "," "," "," ","t","r","a","c","k",":"," ","\"",
      "s","t","r","o","k","e","-","w","h","i","t","e","/","1","0","\"",",","\n"," "," "," "," ",
      " "," "," "," "," "," "," "," ","v","a","l","u","e",":"," ","\"","t","e","x","t","-","3",
      "x","l"," ","f","o","n","t","-","s","e","m","i","b","o","l","d"," ","t","e","x","t","-",
      "w","h","i","t","e","\"",",","\n"," "," "," "," "," "," "," "," "," "," ","}","}","\n",
      " "," "," "," "," "," "," "," "," "," ","v","a","l","u","e","=","{","7","0","}","\n"," ",
      " "," "," "," "," "," "," "," "," ","s","t","r","o","k","e","W","i","d","t","h","=","{",
      "4","}","\n"," "," "," "," "," "," "," "," "," "," ","s","h","o","w","V","a","l","u","e",
      "L","a","b","e","l","=","{","t","r","u","e","}","\n"," "," "," "," "," "," "," "," ","/",
      ">","\n"," "," "," "," "," "," ","<","/","C","a","r","d","B","o","d","y",">","\n"," "," ",
      " "," ","<","/","C","a","r","d",">","\n"," "," ",")",";","\n","}","\n","U+0060","U+0060",
      "U+0060","\n","\n","-","-","-","\n","\n">>

----------------------------------------------------------------------------
(* The literal parts of the block template (the template literal of the    *)
(* forEach callback), in the order they are emitted.                       *)

HeadingMark ==
    <<"\n","#","#"," ">>

DetailsOpen ==
    <<"\n","\n","<","d","e","t","a","i","l","s",">","\n">>

SummaryOpen ==
    <<"<","s","u","m","m","a","r","y",">","V","i","e","w"," ","d","e","t","a","i","l","s"," ",
      "f","o","r"," ">>

SummaryClose ==
    <<"<","/","s","u","m","m","a","r","y",">","\n">>

DescriptionLabel ==
    <<"\n","*","*","D","e","s","c","r","i","p","t","i","o","n",":","*","*"," ">>

ImportLabel ==
    <<"\n","\n","*","*","I","m","p","o","r","t",":","*","*","\n">>

Fence ==
    <<"U+0060","U+0060","U+0060">>

LangTag ==
    <<"t","y","p","e","s","c","r","i","p","t">>

PropsLabel ==
    <<"\n","\n","*","*","P","r","o","p","s",":","*","*","\n","\n">>

\* The header row without its Options column.
TableHeaderFour ==
    <<"|"," ","N","a","m","e"," ","|"," ","T","y","p","e"," ","|"," ","D","e","f","a","u","l",
      "t"," ","|"," ","D","e","s","c","r","i","p","t","i","o","n"," ","|">>

TableHeader ==
    <<"|"," ","N","a","m","e"," ","|"," ","T","y","p","e"," ","|"," ","D","e","f","a","u","l",
      "t"," ","|"," ","O","p","t","i","o","n","s"," ","|"," ","D","e","s","c","r","i","p","t",
      "i","o","n"," ","|">>

TableDelimiter ==
    <<"|"," ","-","-","-"," ","|"," ","-","-","-"," ","|"," ","-","-","-"," ","|"," ","-","-",
      "-"," ","|"," ","-","-","-"," ","|">>

ExampleLabel ==
    <<"\n","\n","*","*","E","x","a","m","p","l","e",":","*","*","\n">>

\* The closing line written as a second opening tag.
DetailsCloseAsOpen ==
    <<"\n","\n","<","d","e","t","a","i","l","s",">","\n">>

DetailsClose ==
    <<"\n","\n","<","/","d","e","t","a","i","l","s",">","\n">>

Separator ==
    <<"-","-","-","\n">>

NL == <<"\n">>

SuccessMessage ==
    <<"S","u","c","c","e","s","s","f","u","l","l","y"," ","c","r","e","a","t","e","d"," ",
      "h","e","r","o","u","i","-","p","r","o","m","p","t","-","g","u","i","d","e",".","m","d">>

----------------------------------------------------------------------------
(* The renderer.                                                           *)

\* The same call with the pattern not global: only the first match is replaced.
RECURSIVE ReplaceFirstPipe(_)
ReplaceFirstPipe(s) ==
    IF s = <<>> THEN <<>>
    ELSE IF Head(s) = "|" THEN <<"\\", "|">> \o Tail(s)
    ELSE <<Head(s)>> \o ReplaceFirstPipe(Tail(s))

\* The replacement escaping the backslashes of the type as well as its pipes.
RECURSIVE ReplacePipesAndBackslashes(_)
ReplacePipesAndBackslashes(s) ==
    IF s = <<>> THEN <<>>
    ELSE (IF Head(s) \in {"|", "\\"} THEN <<"\\", Head(s)>> ELSE <<Head(s)>>)
            \o ReplacePipesAndBackslashes(Tail(s))

\* prop.type.replace(/\|/g, '\\|'): every match of the global pattern,
\* scanning left to right, is replaced by backslash, pipe.
RECURSIVE ReplacePipes(_)
ReplacePipes(s) ==
    IF s = <<>> THEN <<>>
    ELSE (IF Head(s) = "|" THEN <<"\\", "|">> ELSE <<Head(s)>>) \o ReplacePipes(Tail(s))

\* Array.prototype.join: the elements' strings with sep between neighbours.
RECURSIVE Join(_, _)
Join(arr, sep) ==
    IF arr = <<>> THEN <<>>
    ELSE IF Len(arr) = 1 THEN ToString(arr[1])
    ELSE ToString(arr[1]) \o sep \o Join(Tail(arr), sep)

\* The same conditional with a dash for a value that is not shown.
DefaultCellDash(prop) ==
    IF Truthy(Get(prop, "default"))
    THEN <<"U+0060">> \o ToString(Get(prop, "default")) \o <<"U+0060">>
    ELSE <<"-">>

\* The conditional on prop.default: the value between backticks when truthy, else ''.
DefaultCell(prop) ==
    IF Truthy(Get(prop, "default"))
    THEN <<"U+0060">> \o ToString(Get(prop, "default")) \o <<"U+0060">>
    ELSE <<>>

\* The same conditional with the values joined by comma, space only: the whole
\* list between one pair of backticks.
OptionsCellOneSpan(prop) ==
    IF "options" \in DOMAIN prop
    THEN <<"U+0060">> \o Join(prop.options, <<",", " ">>) \o <<"U+0060">>
    ELSE <<>>

\* The conditional on prop.options: the values joined by backtick, comma, space,
\* backtick, between backticks, when the field is there (an array is truthy), else ''.
OptionsCell(prop) ==
    IF "options" \in DOMAIN prop
    THEN <<"U+0060">> \o Join(prop.options, <<"U+0060", ",", " ", "U+0060">>) \o <<"U+0060">>
    ELSE <<>>

\* ${obj.field} for a field holding a string: the string itself, and the
\* text "undefined" when the object has no such field.
Field(obj, field) ==
    IF field \in DOMAIN obj THEN obj[field] ELSE ToString(Undefined)

\* The same row with the type interpolated as it is.
RenderRowRawType(prop) ==
    <<"|", " ", "U+0060">> \o Field(prop, "name")
        \o <<"U+0060", " ", "|", " ", "U+0060">>
        \o prop.type \o <<"U+0060", " ", "|", " ">>
        \o DefaultCell(prop) \o <<" ", "|", " ">>
        \o OptionsCell(prop) \o <<" ", "|", " ">>
        \o Field(prop, "description") \o <<" ", "|">>

\* The arrow function given to component.props.map: one table row.
RenderRow(prop) ==
    <<"|", " ", "U+0060">> \o Field(prop, "name")
        \o <<"U+0060", " ", "|", " ", "U+0060">>
        \o ReplacePipes(prop.type) \o <<"U+0060", " ", "|", " ">>
        \o DefaultCell(prop) \o <<" ", "|", " ">>
        \o OptionsCell(prop) \o <<" ", "|", " ">>
        \o Field(prop, "description") \o <<" ", "|">>

\* component.props.map(...)
MapRows(props) == [j \in 1..Len(props) |-> RenderRow(props[j])]


RECURSIVE JoinLines(_)

\* The join that puts a row of dashes where the array has no element.
JoinLinesPlaceholder(rs) ==
    IF rs = <<>> THEN <<"|", " ", "-", " ", "|">>
    ELSE IF Len(rs) = 1 THEN rs[1]
    ELSE rs[1] \o NL \o JoinLines(Tail(rs))

\* rowsArray.join('\n') on an array of strings
JoinLines(rs) ==
    IF rs = <<>> THEN <<>>
    ELSE IF Len(rs) = 1 THEN rs[1]
    ELSE rs[1] \o NL \o JoinLines(Tail(rs))

\* The same template with the example fence tagged javascript.
BlockMixedTags(component) ==
    HeadingMark \o Field(component, "name") \o DetailsOpen
        \o SummaryOpen \o Field(component, "name") \o SummaryClose
        \o DescriptionLabel \o Field(component, "description")
        \o ImportLabel \o Fence \o LangTag \o NL
        \o Field(component, "import") \o NL \o Fence
        \o PropsLabel \o TableHeader \o NL \o TableDelimiter \o NL
        \o JoinLines(MapRows(component.props))
        \o ExampleLabel \o Fence \o <<"j","a","v","a","s","c","r","i","p","t">> \o NL
        \o Field(component, "example") \o NL \o Fence
        \o DetailsClose \o Separator

\* The same template with the import snippet put on one line: its line
\* breaks replaced by spaces.
BlockOneLineImport(component) ==
    HeadingMark \o Field(component, "name") \o DetailsOpen
        \o SummaryOpen \o Field(component, "name") \o SummaryClose
        \o DescriptionLabel \o Field(component, "description")
        \o ImportLabel \o Fence \o LangTag \o NL
        \o [i \in 1..Len(component.import) |->
               IF component.import[i] = "\n" THEN " " ELSE component.import[i]]
        \o NL \o Fence
        \o PropsLabel \o TableHeader \o NL \o TableDelimiter \o NL
        \o JoinLines(MapRows(component.props))
        \o ExampleLabel \o Fence \o LangTag \o NL
        \o Field(component, "example") \o NL \o Fence
        \o DetailsClose \o Separator

\* The same template with the name escaped like a type in the summary.
BlockNameEscaped(component) ==
    HeadingMark \o Field(component, "name") \o DetailsOpen
        \o SummaryOpen \o ReplacePipes(Field(component, "name")) \o SummaryClose
        \o DescriptionLabel \o Field(component, "description")
        \o ImportLabel \o Fence \o LangTag \o NL
        \o Field(component, "import") \o NL \o Fence
        \o PropsLabel \o TableHeader \o NL \o TableDelimiter \o NL
        \o JoinLines(MapRows(component.props))
        \o ExampleLabel \o Fence \o LangTag \o NL
        \o Field(component, "example") \o NL \o Fence
        \o DetailsClose \o Separator

\* The same template with the example code block before the properties table.
BlockExampleFirst(component) ==
    HeadingMark \o Field(component, "name") \o DetailsOpen
        \o SummaryOpen \o Field(component, "name") \o SummaryClose
        \o DescriptionLabel \o Field(component, "description")
        \o ImportLabel \o Fence \o LangTag \o NL
        \o Field(component, "import") \o NL \o Fence
        \o ExampleLabel \o Fence \o LangTag \o NL
        \o Field(component, "example") \o NL \o Fence
        \o PropsLabel \o TableHeader \o NL \o TableDelimiter \o NL
        \o JoinLines(MapRows(component.props))
        \o DetailsClose \o Separator

\* The template literal appended for one component.
Block(component) ==
    HeadingMark \o Field(component, "name") \o DetailsOpen
        \o SummaryOpen \o Field(component, "name") \o SummaryClose
        \o DescriptionLabel \o Field(component, "description")
        \o ImportLabel \o Fence \o LangTag \o NL
        \o Field(component, "import") \o NL \o Fence
        \o PropsLabel \o TableHeader \o NL \o TableDelimiter \o NL
        \o JoinLines(MapRows(component.props))
        \o ExampleLabel \o Fence \o LangTag \o NL
        \o Field(component, "example") \o NL \o Fence
        \o DetailsClose \o Separator

\* The same with options read without the conditional: the join of a property
\* that has no options throws as well.
ThrownByUnguarded(component) ==
    IF "props" \notin DOMAIN component THEN "map"
    ELSE IF \E j \in 1..Len(component.props) : "type" \notin DOMAIN component.props[j]
         THEN "replace"
         ELSE IF \E j \in 1..Len(component.props) :
                     "options" \notin DOMAIN component.props[j]
              THEN "join"
              ELSE "none"

\* The property whose read throws a TypeError while the template literal of
\* a component is evaluated: "map" when component.props is undefined,
\* "replace" when the type of one of its properties is undefined, "none" when
\* the evaluation runs to its end.
ThrownBy(component) ==
    IF "props" \notin DOMAIN component THEN "map"
    ELSE IF \E j \in 1..Len(component.props) : "type" \notin DOMAIN component.props[j]
         THEN "replace"
         ELSE "none"

----------------------------------------------------------------------------
(* The catalogs the generator is run on.                                   *)

TypeChars == {"a", "|", "\\"}
Types == SeqsUpTo(TypeChars, MaxTypeLen)

DefaultValues ==
    {JStr(<<"d">>), JStr(<<>>), JBool(TRUE), JBool(FALSE), JNum(0), JNum(10)}

OptionLists ==
    {<<>>, <<JStr(<<"x">>)>>, <<JStr(<<"x">>), JStr(<<"y">>)>>,
     <<JStr(<<"y">>), JNum(10), JStr(<<"x">>)>>}

PropDescriptions == {<<"z">>, <<"z", "|", "z">>}

\* Property records with every combination of optional fields.
BareProps ==
    {[name |-> <<"n">>, type |-> ty, description |-> de] :
        ty \in Types, de \in PropDescriptions}

RowProps ==
    BareProps
    \cup {[name |-> p.name, type |-> p.type, description |-> p.description,
           default |-> dv] : p \in BareProps, dv \in DefaultValues}
    \cup {[name |-> p.name, type |-> p.type, description |-> p.description,
           options |-> os] : p \in BareProps, os \in OptionLists}
    \cup {[name |-> p.name, type |-> p.type, description |-> p.description,
           default |-> dv, options |-> os] :
              p \in BareProps, dv \in DefaultValues, os \in OptionLists}

MakeComponent(name, props) ==
    [name |-> name, description |-> <<"D", ".">>,
     import |-> <<"i", ";", "\n", "j", ";">>, props |-> props,
     example |-> <<"<", "E", "/", ">">>]

\* Catalogs of one component with one property, of every shape.
RowCatalogs == {[components |-> <<MakeComponent(<<"A">>, <<p>>)>>] : p \in RowProps}

\* Catalogs of several components with several properties each.
CatProps ==
    {[name |-> <<"p">>, type |-> <<"a", "|", "b">>, default |-> JStr(<<"d">>),
      options |-> <<JStr(<<"x">>), JStr(<<"y">>)>>, description |-> <<"z">>],
     [name |-> <<"q">>, type |-> <<"a">>, description |-> <<"w">>]}

ComponentNames == {<<"A">>, <<"B", "|">>}

\* The record with snippets that begin and end with white space and hold a
\* blank line, a pipe and a backslash.
WithOddSnippets(component) ==
    [component EXCEPT !.import = <<" ", "i", "\n", "\n", "j", " ">>,
                      !.example = <<"<", "E", "|", "\\", ">", "\n">>]

\* The property lists of a component: its properties have distinct names.
PropLists ==
    {ps \in SeqsUpTo(CatProps, Cardinality(CatProps)) :
        \A i, j \in 1..Len(ps) : ps[i].name = ps[j].name => i = j}

\* The records of name A have plain snippets, the others odd ones.
Components ==
    {IF nm = <<"A">> THEN MakeComponent(nm, ps)
     ELSE WithOddSnippets(MakeComponent(nm, ps)) :
        nm \in ComponentNames, ps \in PropLists}

Catalogs == {[components |-> cs] : cs \in SeqsUpTo(Components, MaxComponents)}

\* The object without one of its fields.
Drop(obj, field) == [f \in DOMAIN obj \ {field} |-> obj[f]]

ComponentFields == {"name", "description", "import", "props", "example"}
PropertyFields == {"name", "type", "description"}

\* A catalog has the shape { components: ComponentRecord[] }: every record
\* has its five fields and every property its three required fields.
WellFormed(json) ==
    /\ "components" \in DOMAIN json
    /\ \A k \in 1..Len(json.components) :
          LET c == json.components[k]
          IN  /\ ComponentFields \subseteq DOMAIN c
              /\ \A j \in 1..Len(c.props) : PropertyFields \subseteq DOMAIN c.props[j]

\* Catalogs of records that may lack a field: a record with all its fields,
\* the same record without one of them, and the same record with a property
\* that lacks one of its required fields; records of the required shape with
\* no property and with a property that has every optional field; and the
\* object with no components.
ShapeProp == [name |-> <<"q">>, type |-> <<"a", "|">>, description |-> <<"w">>]

ShapeComponents ==
    LET whole == MakeComponent(<<"A">>, <<ShapeProp>>)
    IN  {whole, MakeComponent(<<"B">>, <<>>)}
        \cup {MakeComponent(<<"B">>, <<p>>) :
                 p \in {q \in CatProps : "options" \in DOMAIN q}}
        \cup {Drop(whole, f) : f \in ComponentFields}
        \cup {MakeComponent(<<"A">>, <<Drop(ShapeProp, f)>>) : f \in PropertyFields}

ShapeCatalogs ==
    {[components |-> cs] : cs \in SeqsUpTo(ShapeComponents, MaxComponents)}
    \cup {[version |-> <<"1">>]}

\* The catalogs of at most one component, for runs that are repeated.
RerunCatalogs == {c \in Catalogs : Len(c.components) <= 1}

NoFile == [exists |-> FALSE, content |-> <<>>]
OldFile == [exists |-> TRUE, content |-> <<"o", "l", "d", "\n">>]

----------------------------------------------------------------------------
(* The script.                                                             *)

\* The state in which the script starts, with one of the given inputs in full.json
\* (or full.json unreadable) and one of the given files at the destination.
Start(inputs, files) ==
    /\ pc = "load"
    /\ fullJson \in [readable : {TRUE}, json : inputs]
                      \cup {[readable |-> FALSE, json |-> [components |-> <<>>]]}
    /\ data = [components |-> <<>>]
    /\ mdxContent = <<>>
    /\ idx = 0
    /\ rows = <<>>
    /\ outFile \in files
    /\ log = <<>>
    /\ err = "none"
    /\ fsCalls = <<>>

Init == Start(Catalogs, {NoFile, OldFile})

InitRow == Start(RowCatalogs, {NoFile})

InitShape == Start(ShapeCatalogs, {NoFile, OldFile})

InitRerun == Start(RerunCatalogs, {NoFile, OldFile})

\* Load with the accumulator started empty instead of with the preamble.
LoadNoPreamble ==
    /\ pc = "load"
    /\ fullJson.readable
    /\ data' = fullJson.json
    /\ mdxContent' = <<>>
    /\ pc' = "render"
    /\ fsCalls' = Append(fsCalls, "readFileSync")
    /\ UNCHANGED <<fullJson, idx, rows, outFile, log, err>>

\* Lines 4 and 6: read and parse the catalog, then start the accumulator.
Load ==
    /\ pc = "load"
    /\ fullJson.readable
    /\ data' = fullJson.json
    /\ mdxContent' = Preamble
    /\ pc' = "render"
    /\ fsCalls' = Append(fsCalls, "readFileSync")
    /\ UNCHANGED <<fullJson, idx, rows, outFile, log, err>>

\* Line 4 when full.json cannot be read: readFileSync throws.
LoadFail ==
    /\ pc = "load"
    /\ ~fullJson.readable
    /\ pc' = "failed"
    /\ err' = "load"
    /\ fsCalls' = Append(fsCalls, "readFileSync")
    /\ UNCHANGED <<fullJson, data, mdxContent, idx, rows, outFile, log>>

\* The callback applied to the components from the last to the first.
RenderComponentBackwards ==
    /\ pc = "render"
    /\ idx < Len(data.components)
    /\ rows' = MapRows(data.components[Len(data.components) - idx].props)
    /\ mdxContent' = mdxContent \o Block(data.components[Len(data.components) - idx])
    /\ idx' = idx + 1
    /\ UNCHANGED fsCalls
    /\ UNCHANGED <<pc, fullJson, data, outFile, log, err>>

\* The callback skipping a component whose name was rendered before.
RenderComponentOncePerName ==
    /\ pc = "render"
    /\ idx < Len(data.components)
    /\ rows' = MapRows(data.components[idx + 1].props)
    /\ mdxContent' =
          IF \E k \in 1..idx : data.components[k].name = data.components[idx + 1].name
          THEN mdxContent
          ELSE mdxContent \o Block(data.components[idx + 1])
    /\ idx' = idx + 1
    /\ UNCHANGED fsCalls
    /\ UNCHANGED <<pc, fullJson, data, outFile, log, err>>

\* The callback writing the text accumulated so far after each block.
RenderComponentWriting ==
    /\ pc = "render"
    /\ "components" \in DOMAIN data
    /\ idx < Len(data.components)
    /\ ThrownBy(data.components[idx + 1]) = "none"
    /\ rows' = MapRows(data.components[idx + 1].props)
    /\ mdxContent' = mdxContent \o Block(data.components[idx + 1])
    /\ outFile' = [exists |-> TRUE, content |-> mdxContent']
    /\ idx' = idx + 1
    /\ fsCalls' = Append(fsCalls, "writeFileSync")
    /\ UNCHANGED <<pc, fullJson, data, log, err>>

\* The callback storing the escaped type back into each property record.
RenderComponentEscapingInPlace ==
    /\ pc = "render"
    /\ "components" \in DOMAIN data
    /\ idx < Len(data.components)
    /\ ThrownBy(data.components[idx + 1]) = "none"
    /\ rows' = MapRows(data.components[idx + 1].props)
    /\ mdxContent' = mdxContent \o Block(data.components[idx + 1])
    /\ LET ps == data.components[idx + 1].props
           qs == [j \in 1..Len(ps) |-> [ps[j] EXCEPT !.type = ReplacePipes(ps[j].type)]]
       IN  data' = [data EXCEPT !.components[idx + 1].props = qs]
    /\ idx' = idx + 1
    /\ UNCHANGED fsCalls
    /\ UNCHANGED <<pc, fullJson, outFile, log, err>>

\* The callback leaving out the blank line before the block of the first
\* record.
RenderComponentFirstTight ==
    /\ pc = "render"
    /\ "components" \in DOMAIN data
    /\ idx < Len(data.components)
    /\ ThrownBy(data.components[idx + 1]) = "none"
    /\ rows' = MapRows(data.components[idx + 1].props)
    /\ mdxContent' = mdxContent \o (IF idx = 0 THEN Tail(Block(data.components[idx + 1]))
                                    ELSE Block(data.components[idx + 1]))
    /\ idx' = idx + 1
    /\ UNCHANGED fsCalls
    /\ UNCHANGED <<pc, fullJson, data, outFile, log, err>>

\* The callback reading and parsing full.json again before each record.
RenderComponentReloading ==
    /\ pc = "render"
    /\ "components" \in DOMAIN data
    /\ idx < Len(data.components)
    /\ ThrownBy(data.components[idx + 1]) = "none"
    /\ data' = fullJson.json
    /\ rows' = MapRows(data.components[idx + 1].props)
    /\ mdxContent' = mdxContent \o Block(data.components[idx + 1])
    /\ idx' = idx + 1
    /\ fsCalls' = Append(fsCalls, "readFileSync")
    /\ UNCHANGED <<pc, fullJson, outFile, log, err>>

\* The callback putting the new block in front of the accumulated text.
RenderComponentPrepending ==
    /\ pc = "render"
    /\ "components" \in DOMAIN data
    /\ idx < Len(data.components)
    /\ ThrownBy(data.components[idx + 1]) = "none"
    /\ rows' = MapRows(data.components[idx + 1].props)
    /\ mdxContent' = Block(data.components[idx + 1]) \o mdxContent
    /\ idx' = idx + 1
    /\ UNCHANGED fsCalls
    /\ UNCHANGED <<pc, fullJson, data, outFile, log, err>>

\* Lines 208-236: one call of the forEach callback, on the next component,
\* when the evaluation of its template literal runs to its end.
RenderComponent ==
    /\ pc = "render"
    /\ "components" \in DOMAIN data
    /\ idx < Len(data.components)
    /\ ThrownBy(data.components[idx + 1]) = "none"
    /\ rows' = MapRows(data.components[idx + 1].props)
    /\ mdxContent' = mdxContent \o Block(data.components[idx + 1])
    /\ idx' = idx + 1
    /\ UNCHANGED fsCalls
    /\ UNCHANGED <<pc, fullJson, data, outFile, log, err>>

\* Lines 208-236 when a read of a property of undefined throws a TypeError:
\* data.components.forEach on a catalog without components, or the template
\* literal of the next component. Nothing is appended to mdxContent, nothing
\* catches the exception, and the rows mapped before the throw are dropped.
RenderThrow ==
    /\ pc = "render"
    /\ \/ /\ "components" \notin DOMAIN data
          /\ err' = "forEach"
       \/ /\ "components" \in DOMAIN data
          /\ idx < Len(data.components)
          /\ ThrownBy(data.components[idx + 1]) # "none"
          /\ err' = ThrownBy(data.components[idx + 1])
    /\ pc' = "failed"
    /\ UNCHANGED fsCalls
    /\ UNCHANGED <<fullJson, data, mdxContent, idx, rows, outFile, log>>

\* The write appending to the destination instead of replacing its content.
WriteAppending ==
    /\ pc = "render"
    /\ idx = Len(data.components)
    /\ outFile' = [exists |-> TRUE, content |-> outFile.content \o mdxContent]
    /\ pc' = "log"
    /\ fsCalls' = Append(fsCalls, "writeFileSync")
    /\ UNCHANGED <<fullJson, data, mdxContent, idx, rows, log, err>>

\* The write leaving alone a destination that exists already.
WriteOnce ==
    /\ pc = "render"
    /\ "components" \in DOMAIN data
    /\ idx = Len(data.components)
    /\ outFile' = IF outFile.exists THEN outFile
                  ELSE [exists |-> TRUE, content |-> mdxContent]
    /\ pc' = "log"
    /\ fsCalls' = Append(fsCalls, "writeFileSync")
    /\ UNCHANGED <<fullJson, data, mdxContent, idx, rows, log, err>>

\* Line 238: writeFileSync replaces the destination's content.
Write ==
    /\ pc = "render"
    /\ "components" \in DOMAIN data
    /\ idx = Len(data.components)
    /\ outFile' = [exists |-> TRUE, content |-> mdxContent]
    /\ pc' = "log"
    /\ fsCalls' = Append(fsCalls, "writeFileSync")
    /\ UNCHANGED <<fullJson, data, mdxContent, idx, rows, log, err>>

\* What a writeFileSync that throws can leave at the destination: the file as
\* it was (the open failed), or the file truncated by the open and holding
\* the part of the text written before the failure, here nothing or the
\* first Len(Preamble) characters.
FailedWriteOutcomes(file, text) ==
    {file}
    \cup {[exists |-> TRUE, content |-> SubSeq(text, 1, n)] :
             n \in {m \in {0, Len(Preamble)} : m < Len(text)}}

\* The failing write with its exception caught and ignored: the script goes on
\* to the next statement.
WriteFailIgnored ==
    /\ pc = "render"
    /\ "components" \in DOMAIN data
    /\ idx = Len(data.components)
    /\ outFile' \in FailedWriteOutcomes(outFile, mdxContent)
    /\ pc' = "log"
    /\ fsCalls' = Append(fsCalls, "writeFileSync")
    /\ UNCHANGED <<fullJson, data, mdxContent, idx, rows, log, err>>

\* Line 238 when the destination cannot be written: writeFileSync throws.
WriteFail ==
    /\ pc = "render"
    /\ "components" \in DOMAIN data
    /\ idx = Len(data.components)
    /\ outFile' \in FailedWriteOutcomes(outFile, mdxContent)
    /\ pc' = "failed"
    /\ err' = "write"
    /\ fsCalls' = Append(fsCalls, "writeFileSync")
    /\ UNCHANGED <<fullJson, data, mdxContent, idx, rows, log>>

\* Line 240: console.log.
Log ==
    /\ pc = "log"
    /\ log' = Append(log, SuccessMessage)
    /\ pc' = "done"
    /\ UNCHANGED fsCalls
    /\ UNCHANGED <<fullJson, data, mdxContent, idx, rows, outFile, err>>

\* The file names of lines 4 and 238.
FullJsonPath == <<"f","u","l","l",".","j","s","o","n">>

OutputPath ==
    <<"h","e","r","o","u","i","-","p","r","o","m","p","t","-","g","u","i","d","e",".","m","d">>

\* The exit code of the process: nothing catches an exception and nothing
\* sets a code, so it is 1 after an uncaught exception and 0 otherwise.
ExitCode == IF pc = "failed" THEN 1 ELSE 0

\* What the report of the uncaught exception names: the path given to the
\* file-system call that failed, or the property whose read on undefined threw.
Reported(e) ==
    CASE e = "load"    -> {FullJsonPath}
      [] e = "write"   -> {OutputPath}
      [] e = "forEach" -> {<<"f","o","r","E","a","c","h">>}
      [] e = "map"     -> {<<"m","a","p">>}
      [] e = "replace" -> {<<"r","e","p","l","a","c","e">>}
      [] OTHER         -> {}

\* The script is started again, on the same full.json and with the
\* destination as the run before left it; the terminal keeps its lines.
Rerun ==
    /\ pc \in {"done", "failed"}
    /\ Len(log) < MaxRuns
    /\ pc' = "load"
    /\ data' = [components |-> <<>>]
    /\ mdxContent' = <<>>
    /\ idx' = 0
    /\ rows' = <<>>
    /\ err' = "none"
    /\ fsCalls' = <<>>
    /\ UNCHANGED <<fullJson, outFile, log>>

\* One run on a catalog of the shape { components: ComponentRecord[] }: no
\* read of a property throws.
Next == Load \/ LoadFail \/ RenderComponent \/ Write \/ WriteFail \/ Log

\* One run on any parsed object.
NextShape ==
    Load \/ LoadFail \/ RenderComponent \/ RenderThrow \/ Write \/ WriteFail \/ Log

\* Runs one after the other.
NextRerun ==
    Load \/ LoadFail \/ RenderComponent \/ Write \/ WriteFail \/ Log \/ Rerun

Spec == Init /\ [][Next]_vars

\* The same script run on the catalogs of one component with one property.
RowSpec == InitRow /\ [][Next]_vars

\* The same script run on objects that may not have the shape of a catalog.
ShapeSpec == InitShape /\ [][NextShape]_vars

\* The same script run again and again on one catalog.
RerunSpec == InitRerun /\ [][NextRerun]_vars

----------------------------------------------------------------------------
(* Reading the rendered text back: table cells, lines, marks.              *)

\* The positions i of s, in increasing order, at which At(i) holds.
Positions(s, At(_)) == SelectSeq([i \in 1..Len(s) |-> i], At)

\* The positions of the pipes of s not immediately preceded by a backslash.
UnescapedPipes(s) ==
    Positions(s, LAMBDA i : s[i] = "|" /\ (i = 1 \/ s[i - 1] # "\\"))

\* The pieces of s between the positions ps (in increasing order), with the
\* piece before the first and the piece after the last.
SplitAt(s, ps) ==
    [k \in 1..(Len(ps) + 1) |->
        SubSeq(s, IF k = 1 THEN 1 ELSE ps[k - 1] + 1,
                  IF k = Len(ps) + 1 THEN Len(s) ELSE ps[k] - 1)]

\* A table row split on its unescaped pipes.
SplitRow(row) ==
    LET ps == UnescapedPipes(row)
    IN  SplitAt(row, ps)

\* The logical columns of a row: the pieces between its leading and its
\* trailing delimiter.
Columns(row) ==
    LET pieces == SplitRow(row)
    IN  SubSeq(pieces, 2, Len(pieces) - 1)

\* A row is framed when nothing precedes its first or follows its last delimiter.
Framed(row) ==
    LET pieces == SplitRow(row)
    IN  Len(pieces) >= 2 /\ pieces[1] = <<>> /\ pieces[Len(pieces)] = <<>>

\* The content of a cell: the cell without its one padding space on each side.
CellText(cell) == SubSeq(cell, 2, Len(cell) - 1)

Padded(cell) == Len(cell) >= 2 /\ cell[1] = " " /\ cell[Len(cell)] = " "

\* The rows of the last rendered component with the records they come from.
RenderedRows ==
    IF idx = 0 THEN {}
    ELSE {[prop |-> data.components[idx].props[j], row |-> rows[j]] :
             j \in 1..Len(rows)}

----------------------------------------------------------------------------
(* Table structure of a rendered row.                                      *)

\* C1 (as claimed): every rendered row whose type contains a pipe splits, on
\* its unescaped pipes, into exactly five logical columns.
C1_FiveColumns ==
    \A r \in RenderedRows :
        HasChar(r.prop.type, "|") =>
            Framed(r.row) /\ Len(Columns(r.row)) = 5

\* e is t with each pipe, and nothing else, replaced by backslash, pipe: the
\* i-th character of t lands in e after as many extra characters as there are
\* pipes before it.
IsEscapedType(t, e) ==
    /\ Len(e) = Len(t) + Count(t, "|")
    /\ \A i \in 1..Len(t) :
          LET at == i + Count(SubSeq(t, 1, i - 1), "|")
          IN  IF t[i] = "|"
              THEN e[at] = "\\" /\ e[at + 1] = "|"
              ELSE e[at] = t[i]

\* The text of a cell is code between one pair of backticks.
InBackticks(text) ==
    Len(text) >= 2 /\ text[1] = "U+0060" /\ text[Len(text)] = "U+0060"

\* C2: the Type cell of every rendered row is the type with every pipe
\* replaced by backslash, pipe, and no other character changed, between one
\* pair of backticks.
C2_TypeCellEscaped ==
    \A r \in RenderedRows :
        LET cols == Columns(r.row)
        IN  /\ Len(cols) >= 2
            /\ Padded(cols[2])
            /\ InBackticks(CellText(cols[2]))
            /\ IsEscapedType(r.prop.type, CellText(CellText(cols[2])))

\* A row whose type holds two pipes has been rendered and written.
C2_Witness ==
    /\ pc = "done"
    /\ \E r \in RenderedRows : Count(r.prop.type, "|") >= 2

----------------------------------------------------------------------------
(* The document as a whole.                                                *)

\* What the loop has appended to the preamble so far.
OutputTail == SubSeq(mdxContent, Len(Preamble) + 1, Len(mdxContent))

Lines(s) ==
    LET ps == Positions(s, LAMBDA i : s[i] = "\n")
    IN  SplitAt(s, ps)

IsHeadingLine(l) == IsPrefix(<<"#", "#", " ">>, l)

IsRowLine(l) == IsPrefix(<<"|", " ", "U+0060">>, l)

\* The forEach loop has run to its end.
RenderFinished ==
    \/ pc = "render" /\ idx = Len(data.components)
    \/ pc \in {"log", "done"}
    \/ pc = "failed" /\ err = "write"

\* A heading line is marked by "#" and its name, a table data row by "|" and
\* the name in its first cell.
MarkOf(l) ==
    IF IsHeadingLine(l) THEN <<"#">> \o SubSeq(l, 4, Len(l))
    ELSE <<"|">> \o CellText(CellText(Columns(l)[1]))

RenderedMarks(s) ==
    LET ls == Lines(s)
        sel == SelectSeq(ls, LAMBDA l : IsHeadingLine(l) \/ IsRowLine(l))
    IN  [k \in 1..Len(sel) |-> MarkOf(sel[k])]

ExpectedMarks(cs) ==
    Flatten([k \in 1..Len(cs) |->
        <<(<<"#">> \o cs[k].name)>>
            \o [j \in 1..Len(cs[k].props) |-> <<"|">> \o cs[k].props[j].name]])

\* C3: the component blocks follow one another in the order of
\* data.components, and inside each block the table data rows follow one
\* another in the order of the record's props; this holds after every
\* iteration of the loop, for the records rendered so far.
C3_OrderPreserved ==
    (pc # "load" /\ err # "load") =>
        LET tail == OutputTail
        IN  RenderedMarks(tail) = ExpectedMarks(SubSeq(data.components, 1, idx))

\* A catalog of two components with different names, the first with two
\* properties, has been rendered and written.
C3_Witness ==
    /\ pc = "done"
    /\ Len(data.components) = 2
    /\ data.components[1].name # data.components[2].name
    /\ Len(data.components[1].props) = 2

\* The number of the lines ls equal to the given line.
LineCount(ls, line) == Len(SelectSeq(ls, LAMBDA l : l = line))

\* C4: once the loop has run to its end, the output holds as many component
\* blocks (openings of a details wrapper, each with a level-2 heading) as
\* data.components has records, records of the same name included.
C4_BlockCount ==
    RenderFinished =>
        LET ls == Lines(OutputTail)
        IN  /\ LineCount(ls, <<"<", "d", "e", "t", "a", "i", "l", "s", ">">>)
                  = Len(data.components)
            /\ Len(SelectSeq(ls, IsHeadingLine)) = Len(data.components)

\* A catalog of two records with the same name has been rendered and written.
C4_Witness ==
    /\ pc = "done"
    /\ Len(data.components) = 2
    /\ data.components[1].name = data.components[2].name

\* The blocks of the components cs, one after the other.
Blocks(cs) == Flatten([k \in 1..Len(cs) |-> Block(cs[k])])

\* C6: the output begins with the preamble unchanged, and once the loop has
\* run to its end it is the preamble followed by one block per record of
\* data.components, in order, and nothing else; that is what is written.
C6_PreambleThenBlocks ==
    /\ (pc # "load" /\ err # "load") => IsPrefix(Preamble, mdxContent)
    /\ RenderFinished => mdxContent = Preamble \o Blocks(data.components)
    /\ pc \in {"log", "done"} =>
          outFile.content = Preamble \o Blocks(data.components)

\* A catalog of two records has been rendered and written.
C6_Witness ==
    /\ pc = "done"
    /\ Len(data.components) = 2
    /\ outFile.content = mdxContent
    /\ Len(mdxContent) > Len(Preamble)

\* C7: for a catalog with no components, what is written is the preamble
\* and nothing more.
C7_EmptyCatalog ==
    (pc \in {"log", "done"} /\ data.components = <<>>) =>
        outFile = [exists |-> TRUE, content |-> Preamble]

\* The empty catalog has been loaded, rendered and written.
C7_Witness ==
    /\ pc = "done"
    /\ fullJson.readable
    /\ fullJson.json.components = <<>>
    /\ outFile.content = Preamble

----------------------------------------------------------------------------
(* The Default and Options cells.                                          *)

\* C8 (as claimed): the Default cell is empty exactly when the record has no
\* default field, and otherwise holds the field's literal value, whatever it
\* is, between backticks.
C8_DefaultCellShown ==
    \A r \in RenderedRows :
        LET cols == Columns(r.row)
        IN  /\ Len(cols) >= 3
            /\ Padded(cols[3])
            /\ CellText(cols[3]) =
                  IF "default" \in DOMAIN r.prop
                  THEN <<"U+0060">> \o ToString(r.prop.default) \o <<"U+0060">>
                  ELSE <<>>

\* The values os, each between its own pair of backticks, separated by
\* comma, space.
CodeLiterals(os) ==
    Flatten([i \in 1..Len(os) |->
        (IF i = 1 THEN <<>> ELSE <<",", " ">>)
            \o <<"U+0060">> \o ToString(os[i]) \o <<"U+0060">>])

\* C9 (as claimed): the Options cell is empty exactly when the record has no
\* options field, and otherwise holds the values in input order, each between
\* its own pair of backticks, separated by comma, space: as many pairs of
\* backticks as values.
C9_OptionsCellAsClaimed ==
    \A r \in RenderedRows :
        LET cols == Columns(r.row)
        IN  /\ Len(cols) >= 4
            /\ Padded(cols[4])
            /\ (CellText(cols[4]) = <<>>) <=> ("options" \notin DOMAIN r.prop)
            /\ "options" \in DOMAIN r.prop =>
                  /\ CellText(cols[4]) = CodeLiterals(r.prop.options)
                  /\ Count(CellText(cols[4]), "U+0060") = 2 * Len(r.prop.options)

\* C9 (amended): the Options cell is empty exactly when the record has no
\* options field; when options holds at least one value the cell is the
\* values in input order, each between its own pair of backticks, separated
\* by comma, space, with as many pairs of backticks as values; when options
\* is an empty list the cell is one pair of backticks with nothing between.
C9_OptionsCell ==
    \A r \in RenderedRows :
        LET cols == Columns(r.row)
        IN  /\ Len(cols) >= 4
            /\ Padded(cols[4])
            /\ (CellText(cols[4]) = <<>>) <=> ("options" \notin DOMAIN r.prop)
            /\ ("options" \in DOMAIN r.prop /\ r.prop.options # <<>>) =>
                  /\ CellText(cols[4]) = CodeLiterals(r.prop.options)
                  /\ Count(CellText(cols[4]), "U+0060") = 2 * Len(r.prop.options)
            /\ ("options" \in DOMAIN r.prop /\ r.prop.options = <<>>) =>
                  CellText(cols[4]) = <<"U+0060", "U+0060">>

\* A row with three option values, one of them a number, has been rendered
\* and written.
C9_Witness ==
    /\ pc = "done"
    /\ \E r \in RenderedRows :
          /\ "options" \in DOMAIN r.prop
          /\ Len(r.prop.options) = 3
          /\ Count(Columns(r.row)[4], "U+0060") = 6

\* Every character of the cell is a space.
Blank(cell) == \A i \in 1..Len(cell) : cell[i] = " "

\* C10: a record with neither default nor options renders a row whose third
\* and fourth cells are blank, while the name cell, the type cell and the
\* description are rendered as for any other record.
C10_BothCellsEmpty ==
    \A r \in RenderedRows :
        ("default" \notin DOMAIN r.prop /\ "options" \notin DOMAIN r.prop) =>
            LET cols == Columns(r.row)
                ending == <<"|", " ">> \o r.prop.description \o <<" ", "|">>
            IN  /\ Framed(r.row)
                /\ Len(cols) >= 5
                /\ Blank(cols[3]) /\ Blank(cols[4])
                /\ cols[1] = <<" ", "U+0060">> \o r.prop.name \o <<"U+0060", " ">>
                /\ Padded(cols[2]) /\ InBackticks(CellText(cols[2]))
                /\ IsEscapedType(r.prop.type, CellText(CellText(cols[2])))
                /\ Len(r.row) >= Len(ending)
                /\ SubSeq(r.row, Len(r.row) - Len(ending) + 1, Len(r.row)) = ending

\* A row of a record with neither default nor options, and with a pipe in
\* its type, has been rendered and written.
C10_Witness ==
    /\ pc = "done"
    /\ \E r \in RenderedRows :
          /\ "default" \notin DOMAIN r.prop
          /\ "options" \notin DOMAIN r.prop
          /\ HasChar(r.prop.type, "|")
          /\ Blank(Columns(r.row)[3])

----------------------------------------------------------------------------
(* The parts of a block.                                                   *)

\* The line a label of the template stands on.
LabelLine(label) == SelectSeq(label, LAMBDA c : c # "\n")

\* The lines of the k-th block of the lines ls: from the k-th heading line
\* to the line before the next heading line.
BlockLines(ls, k) ==
    LET hs == Positions(ls, LAMBDA i : IsHeadingLine(ls[i]))
    IN  SubSeq(ls, hs[k], IF k = Len(hs) THEN Len(ls) ELSE hs[k + 1] - 1)

\* The lines of the block bl after its Props label and before its Example
\* label, blank lines left out.
TableLines(bl) ==
    LET a == Positions(bl, LAMBDA i : bl[i] = LabelLine(PropsLabel))
        b == Positions(bl, LAMBDA i : bl[i] = LabelLine(ExampleLabel))
    IN  SelectSeq(SubSeq(bl, a[1] + 1, b[1] - 1), LAMBDA l : l # <<>>)

\* C11: the table of a record whose props is empty is the header row and the
\* delimiter row and no data row; the callback runs to its end on that record
\* and on every record after it, each getting its block.
C11_EmptyPropsTable ==
    /\ (pc = "render" /\ idx < Len(data.components)) => ENABLED RenderComponent
    /\ (pc # "load" /\ err # "load") =>
          LET ls == Lines(OutputTail)
          IN  /\ Len(SelectSeq(ls, IsHeadingLine)) = idx
              /\ \A k \in 1..idx :
                    data.components[k].props = <<>> =>
                        LET bl == BlockLines(ls, k)
                        IN  /\ LineCount(bl, LabelLine(PropsLabel)) = 1
                            /\ LineCount(bl, LabelLine(ExampleLabel)) = 1
                            /\ TableLines(bl) = <<TableHeader, TableDelimiter>>
                            /\ SelectSeq(bl, IsRowLine) = <<>>

\* A catalog whose first record has no property and whose second has one has
\* been rendered and written.
C11_Witness ==
    /\ pc = "done"
    /\ Len(data.components) = 2
    /\ data.components[1].props = <<>>
    /\ data.components[2].props # <<>>
    /\ outFile.content = mdxContent

----------------------------------------------------------------------------
(* Failures.                                                               *)

\* The kinds of err left by a TypeError thrown in the loop.
TypeErrors == {"forEach", "map", "replace", "join"}

\* C12: on a catalog of the required shape no iteration of the loop throws:
\* the callback can run on every record, after the last record the write is
\* the next step, and the only failure of the run is that of the write.
C12_NoRaiseWhenValid ==
    (fullJson.readable /\ WellFormed(fullJson.json)) =>
        /\ err \notin TypeErrors
        /\ (pc = "render" /\ idx < Len(data.components)) => ENABLED RenderComponent
        /\ (pc = "render" /\ idx = Len(data.components)) =>
              (ENABLED Write) /\ (ENABLED WriteFail)
        /\ pc = "failed" => (err = "write" /\ idx = Len(data.components))

\* A catalog of two records of the required shape, the first with a property
\* that has neither default nor options and the second with no property, has
\* been rendered to its end and written.
C12_Witness ==
    /\ pc = "done"
    /\ WellFormed(fullJson.json)
    /\ Len(data.components) = 2
    /\ idx = 2
    /\ Len(data.components[1].props) = 1
    /\ "options" \notin DOMAIN data.components[1].props[1]
    /\ data.components[2].props = <<>>
    /\ outFile.content = mdxContent

\* C13 (as claimed): when full.json cannot be read, or what it holds has not
\* the required shape, the run fails before any rendering: no block has been
\* appended to mdxContent when it has failed, the run never gets to the
\* success message, and nothing is ever written to the destination.
C13_BadShapeFailsAtLoad ==
    (fullJson.readable => ~WellFormed(fullJson.json)) =>
        /\ pc \notin {"log", "done"}
        /\ outFile \in {NoFile, OldFile}
        /\ pc = "failed" => mdxContent \in {<<>>, Preamble}

\* C14 (as claimed): at every moment of a run the destination is as it was
\* before the run, or the run has rendered every record and the destination
\* holds the whole document; it never holds anything less.
C14_AllOrNothingAsClaimed ==
    \/ outFile \in {NoFile, OldFile}
    \/ /\ "components" \in DOMAIN data
       /\ idx = Len(data.components)
       /\ outFile = [exists |-> TRUE, content |-> mdxContent]

\* C14 (amended): the destination is untouched until the loop has run over
\* every record, and stays so when the run fails before the write; a run that
\* gets past the write has left the whole document there; a write that fails
\* leaves the destination as it was or holding a proper prefix of the whole
\* document, and no success message.
C14_AllOrNothing ==
    /\ (pc \in {"load", "render"} \/ (pc = "failed" /\ err # "write")) =>
          outFile \in {NoFile, OldFile}
    /\ pc \in {"log", "done"} =>
          /\ idx = Len(data.components)
          /\ IsPrefix(Preamble, mdxContent)
          /\ outFile = [exists |-> TRUE, content |-> mdxContent]
    /\ (pc = "failed" /\ err = "write") =>
          /\ idx = Len(data.components)
          /\ log = <<>>
          /\ \/ outFile \in {NoFile, OldFile}
             \/ /\ outFile.exists
                /\ Len(outFile.content) < Len(mdxContent)
                /\ IsPrefix(outFile.content, mdxContent)

\* The write of a document of two blocks has failed after the preamble alone
\* had reached the destination.
C14_Witness ==
    /\ pc = "failed"
    /\ err = "write"
    /\ Len(data.components) = 2
    /\ outFile = [exists |-> TRUE, content |-> Preamble]
    /\ Len(mdxContent) > Len(Preamble)

----------------------------------------------------------------------------
(* Runs one after the other.                                               *)

\* C15: after the write of any run, the first or a later one, whatever the
\* destination held before (nothing, another text, the text of an earlier
\* run, what a failed write left), the destination holds exactly the text
\* rendered by this run, which is the preamble followed by the blocks of the
\* catalog: the same after the second run as after the first.
C15_Overwritten ==
    pc \in {"log", "done"} =>
        /\ outFile.exists
        /\ outFile.content = mdxContent
        /\ mdxContent = Preamble \o Blocks(fullJson.json.components)

\* A second run on a catalog of one record has succeeded after a first one
\* that had succeeded too.
C15_Witness ==
    /\ pc = "done"
    /\ Len(log) = 2
    /\ Len(fullJson.json.components) = 1
    /\ outFile.content = Preamble \o Block(fullJson.json.components[1])

\* The texts that identify the k-th record of the catalog: its index, counted
\* from 0 or from 1, and its name when it has one.
RecordIds(k) ==
    {NatToString(k - 1), NatToString(k)}
        \cup (IF "name" \in DOMAIN data.components[k]
              THEN {data.components[k].name} ELSE {})

\* C16 (as claimed): a run on a source that cannot be read or has not the
\* required shape ends with a non-zero exit code, as does every failed run;
\* the report of a failure caused by a record names that record by index or
\* by name, and the report of a failed write names the destination path.
C16_FailureReported ==
    /\ (pc \in {"done", "failed"}
           /\ (fullJson.readable => ~WellFormed(fullJson.json))) => ExitCode # 0
    /\ pc = "failed" => ExitCode # 0
    /\ (pc = "failed" /\ err = "write") => OutputPath \in Reported(err)
    /\ (pc = "failed" /\ err \in {"map", "replace"}) =>
          Reported(err) \cap RecordIds(idx + 1) # {}

----------------------------------------------------------------------------
(* Code blocks.                                                            *)

\* The position in the block bl of the line of the given label.
LabelAt(bl, label) == Positions(bl, LAMBDA i : bl[i] = LabelLine(label))[1]

\* An opening fence line is a fence followed by a language tag.
IsOpeningFence(l) == IsPrefix(Fence, l) /\ Len(l) > Len(Fence)

TagOf(l) == SubSeq(l, Len(Fence) + 1, Len(l))

\* C17: in every block the line after the Import label and the line after
\* the Example label are opening fences, these are the only opening fences
\* of the output, and all of them carry one and the same language tag.
C17_OneLanguageTag ==
    (pc # "load" /\ err # "load") =>
        LET ls == Lines(OutputTail)
            opens == SelectSeq(ls, IsOpeningFence)
        IN  /\ Len(opens) = 2 * idx
            /\ \A i, j \in 1..Len(opens) : TagOf(opens[i]) = TagOf(opens[j])
            /\ \A k \in 1..idx :
                  LET bl == BlockLines(ls, k)
                  IN  /\ IsOpeningFence(bl[LabelAt(bl, ImportLabel) + 1])
                      /\ IsOpeningFence(bl[LabelAt(bl, ExampleLabel) + 1])

\* Two records have been rendered and written: four opening fences.
C17_Witness ==
    /\ pc = "done"
    /\ Len(data.components) = 2
    /\ Len(SelectSeq(Lines(outFile.content), IsOpeningFence))
          = Len(SelectSeq(Lines(Preamble), IsOpeningFence)) + 4

\* The text between the opening fence that follows the given label in the
\* block bl and the first closing fence after it: the lines between the two
\* fence lines, joined by line breaks.
Snippet(bl, label) ==
    LET open == LabelAt(bl, label) + 1
        closes == Positions(bl, LAMBDA i : i > open /\ bl[i] = Fence)
    IN  JoinLines(SubSeq(bl, open + 1, closes[1] - 1))

\* C18: in every block the text between the opening fence line after the
\* Import label and the next closing fence line is the record's import,
\* character for character, line breaks included, and the text between the
\* fence lines after the Example label is the record's example.
C18_SnippetsVerbatim ==
    (pc # "load" /\ err # "load") =>
        LET ls == Lines(OutputTail)
        IN  \A k \in 1..idx :
               LET bl == BlockLines(ls, k)
               IN  /\ LineCount(bl, Fence) = 2
                   /\ Snippet(bl, ImportLabel) = data.components[k].import
                   /\ Snippet(bl, ExampleLabel) = data.components[k].example

\* A record whose import snippet begins with a space and holds a blank line,
\* and whose example ends with a line break, has been rendered and written.
C18_Witness ==
    /\ pc = "done"
    /\ Len(data.components) >= 1
    /\ IsPrefix(<<" ">>, data.components[1].import)
    /\ Count(data.components[1].import, "\n") = 2
    /\ data.components[1].example[Len(data.components[1].example)] = "\n"
    /\ Snippet(BlockLines(Lines(OutputTail), 1), ImportLabel)
          = data.components[1].import

----------------------------------------------------------------------------
(* The name of a record in its block.                                      *)

IsSummaryLine(l) == IsPrefix(LabelLine(SummaryOpen), l)

\* C19: every block has one level-2 heading line, which is "## " followed by
\* the record's name, and one summary line, which is the summary element
\* holding "View details for " followed by the name; in both the name stands
\* character for character, with nothing escaped.
C19_NameVerbatim ==
    (pc # "load" /\ err # "load") =>
        LET ls == Lines(OutputTail)
        IN  /\ Len(SelectSeq(ls, IsSummaryLine)) = idx
            /\ \A k \in 1..idx :
                  LET bl == BlockLines(ls, k)
                      nm == data.components[k].name
                  IN  /\ bl[1] = <<"#", "#", " ">> \o nm
                      /\ Len(SelectSeq(bl, IsHeadingLine)) = 1
                      /\ SelectSeq(bl, IsSummaryLine)
                            = <<LabelLine(SummaryOpen) \o nm \o LabelLine(SummaryClose)>>

\* A record whose name holds a pipe has been rendered and written.
C19_Witness ==
    /\ pc = "done"
    /\ Len(data.components) >= 1
    /\ HasChar(data.components[1].name, "|")
    /\ BlockLines(Lines(OutputTail), 1)[1] = <<"#", "#", " ">> \o data.components[1].name

----------------------------------------------------------------------------
(* The order of the parts of a block.                                      *)

\* The part of a block a line belongs to by its form; "text" for the lines
\* that are content: blank lines, snippet lines, table data rows.
PartOf(l) ==
    CASE IsHeadingLine(l)                          -> "heading"
      [] l = LabelLine(DetailsOpen)                -> "details"
      [] IsSummaryLine(l)                          -> "summary"
      [] IsPrefix(LabelLine(DescriptionLabel), l)  -> "description"
      [] l = LabelLine(ImportLabel)                -> "import"
      [] IsOpeningFence(l)                         -> "fence"
      [] l = Fence                                 -> "end fence"
      [] l = LabelLine(PropsLabel)                 -> "props"
      [] l = TableHeader                           -> "header row"
      [] l = TableDelimiter                        -> "delimiter row"
      [] l = LabelLine(ExampleLabel)               -> "example"
      [] l = LabelLine(DetailsClose)               -> "end details"
      [] l = LabelLine(Separator)                  -> "separator"
      [] OTHER                                     -> "text"

\* The parts of the lines ls in the order they come, content lines left out.
Parts(ls) ==
    LET ps == [i \in 1..Len(ls) |-> PartOf(ls[i])]
    IN  SelectSeq(ps, LAMBDA p : p # "text")

PartsOfBlock ==
    <<"heading", "details", "summary", "description",
      "import", "fence", "end fence",
      "props", "header row", "delimiter row",
      "example", "fence", "end fence",
      "end details", "separator">>

\* C20: what the loop has appended is, block after block, the same parts in
\* the same order: heading, details opening, summary, description, import
\* label with its code block, Props label with the table header, Example
\* label with its code block, details closing, separator; no part is missing
\* and none comes twice.
C20_PartsInOrder ==
    (pc # "load" /\ err # "load") =>
        Parts(Lines(OutputTail)) = Flatten([k \in 1..idx |-> PartsOfBlock])

\* Two records, the first with two properties, have been rendered and
\* written: twice the parts of a block.
C20_Witness ==
    /\ pc = "done"
    /\ Len(data.components) = 2
    /\ Len(data.components[1].props) = 2
    /\ Len(Parts(Lines(OutputTail))) = 2 * Len(PartsOfBlock)

----------------------------------------------------------------------------
(* The table of a block.                                                   *)

\* The five column titles, each with its one space of padding on each side.
HeaderCells ==
    << <<" ", "N", "a", "m", "e", " ">>,
       <<" ", "T", "y", "p", "e", " ">>,
       <<" ", "D", "e", "f", "a", "u", "l", "t", " ">>,
       <<" ", "O", "p", "t", "i", "o", "n", "s", " ">>,
       <<" ", "D", "e", "s", "c", "r", "i", "p", "t", "i", "o", "n", " ">> >>

DelimiterCells == [i \in 1..Len(HeaderCells) |-> <<" ", "-", "-", "-", " ">>]

\* C21: in every block, whatever the record's props, the first line of the
\* table is a row of the five columns Name, Type, Default, Options,
\* Description in that order, the line right after it is a delimiter row of
\* five columns, every line after that is a data row, and neither of the two
\* rows comes a second time in the block.
C21_TableHeader ==
    pc = "render" =>
        LET ls == Lines(OutputTail)
        IN  \A k \in 1..idx :
               LET bl == BlockLines(ls, k)
                   tl == TableLines(bl)
                   at == LabelAt(bl, PropsLabel)
               IN  /\ Len(tl) = 2 + Len(data.components[k].props)
                   /\ Framed(tl[1]) /\ Columns(tl[1]) = HeaderCells
                   /\ Framed(tl[2]) /\ Columns(tl[2]) = DelimiterCells
                   /\ bl[at + 2] = tl[1] /\ bl[at + 3] = tl[2]
                   /\ LineCount(bl, tl[1]) = 1 /\ LineCount(bl, tl[2]) = 1
                   /\ \A j \in 3..Len(tl) : IsRowLine(tl[j])

\* Two records, one with no property and one with two, have each got their
\* table and the loop is at its end.
C21_Witness ==
    /\ pc = "render"
    /\ idx = Len(data.components)
    /\ {Len(data.components[k].props) : k \in 1..idx} = {0, 2}
    /\ Len(SelectSeq(Lines(OutputTail), LAMBDA l : Columns(l) = HeaderCells)) = 2

----------------------------------------------------------------------------
(* Fields other than the type.                                             *)

\* The end of the row after its fourth inner delimiter.
EndOfRow(row) ==
    LET ps == UnescapedPipes(row)
    IN  SubSeq(row, ps[5], Len(row))

\* C22 (as claimed): apart from the type, every field is emitted exactly as
\* given: the name between backticks in the first cell, the default value
\* between backticks in the third, each option value between backticks in
\* the fourth, the description from the last inner delimiter to the end of
\* the row, its pipes unescaped, and the component's description after its
\* label.
C22_OtherFieldsAsGiven ==
    /\ \A r \in RenderedRows :
          LET cols == Columns(r.row)
          IN  /\ Len(cols) >= 5
              /\ cols[1] = <<" ", "U+0060">> \o r.prop.name \o <<"U+0060", " ">>
              /\ "default" \in DOMAIN r.prop =>
                    cols[3] = <<" ", "U+0060">> \o ToString(r.prop.default)
                                  \o <<"U+0060", " ">>
              /\ ("options" \in DOMAIN r.prop /\ r.prop.options # <<>>) =>
                    cols[4] = <<" ">> \o CodeLiterals(r.prop.options) \o <<" ">>
              /\ EndOfRow(r.row) = <<"|", " ">> \o r.prop.description \o <<" ", "|">>
    /\ (pc = "render" /\ idx >= 1) =>
          LET bl == BlockLines(Lines(OutputTail), idx)
          IN  SelectSeq(bl, LAMBDA l : IsPrefix(LabelLine(DescriptionLabel), l))
                 = <<LabelLine(DescriptionLabel) \o data.components[idx].description>>

----------------------------------------------------------------------------
(* The catalog during the run.                                             *)

\* C23: from the load on, while the loop runs, after it has run to its end
\* and after it has failed, data is what was parsed from full.json: the list
\* of components, every record, every props and options list.
C23_CatalogUnchanged ==
    (pc # "load" /\ err # "load") => data = fullJson.json

\* The loop has failed on its second record after rendering a first record
\* whose property has a pipe in its type.
C23_Witness ==
    /\ pc = "failed"
    /\ err \in {"map", "replace"}
    /\ idx = 1
    /\ HasChar(data.components[1].props[1].type, "|")
    /\ Len(mdxContent) > Len(Preamble)

----------------------------------------------------------------------------
(* Records are rendered independently.                                     *)

\* The text of the k-th block of the lines ls, with the line break that
\* precedes its heading.
BlockText(ls, k) == NL \o JoinLines(BlockLines(ls, k))

\* C24: the text standing in the output for a record is the block of that
\* record alone, wherever the record stands in the catalog and whatever the
\* other records are; so, for every way of cutting the catalog in two, the
\* output of the finished loop is the preamble, the blocks of the first part,
\* then the blocks of the second part.
C24_NoStateBetweenRecords ==
    pc = "render" =>
        LET ls == Lines(OutputTail)
            cs == data.components
        IN  /\ \A k \in 1..idx : BlockText(ls, k) = Block(cs[k])
            /\ idx = Len(cs) =>
                  \A n \in 0..Len(cs) :
                     mdxContent = Preamble \o Blocks(SubSeq(cs, 1, n))
                                           \o Blocks(SubSeq(cs, n + 1, Len(cs)))

\* The same record stands first and second in a catalog, and the two blocks
\* of the output are the same text.
C24_Witness ==
    /\ pc = "render"
    /\ idx = 2
    /\ Len(data.components) = 2
    /\ data.components[1] = data.components[2]
    /\ data.components[1].props # <<>>
    /\ BlockText(Lines(OutputTail), 1) = BlockText(Lines(OutputTail), 2)

----------------------------------------------------------------------------
(* The order of the steps of a run.                                        *)

\* C25: the calls of fs made by a run are one read, made first, and after it
\* at most one write: none before the read, the read alone while the loop
\* runs and when the loop has thrown, the read and then the write once the
\* write has been attempted, which is only when the loop has run over every
\* record.
C25_ReadRenderWrite ==
    /\ pc = "load" => fsCalls = <<>>
    /\ pc = "render" => fsCalls = <<"readFileSync">>
    /\ (pc = "failed" /\ err # "write") => fsCalls = <<"readFileSync">>
    /\ (pc \in {"log", "done"} \/ (pc = "failed" /\ err = "write")) =>
          /\ fsCalls = <<"readFileSync", "writeFileSync">>
          /\ idx = Len(data.components)

\* A run on two records has read, rendered both and written.
C25_Witness ==
    /\ pc = "done"
    /\ idx = 2
    /\ fsCalls = <<"readFileSync", "writeFileSync">>
    /\ outFile.content = mdxContent

\* C26: when the write has failed the loop had run over every record, the
\* accumulator still holds the whole rendered text, and nothing is logged;
\* the success message is on the terminal only when the read has succeeded,
\* every record has been rendered, the destination holds the rendered text
\* and no exception has been thrown, and then it is there once.
C26_SuccessOnlyAfterWrite ==
    /\ (pc = "failed" /\ err = "write") =>
          /\ idx = Len(data.components)
          /\ mdxContent = Preamble \o Blocks(data.components)
          /\ log = <<>>
    /\ log # <<>> =>
          /\ log = <<SuccessMessage>>
          /\ pc = "done"
          /\ err = "none"
          /\ fullJson.readable
          /\ data = fullJson.json
          /\ idx = Len(data.components)
          /\ outFile = [exists |-> TRUE, content |-> mdxContent]
    /\ pc = "done" => log = <<SuccessMessage>>

\* The write of a document of two blocks has failed, leaving the destination
\* as it was and no line on the terminal.
C26_Witness ==
    /\ pc = "failed"
    /\ err = "write"
    /\ Len(data.components) = 2
    /\ outFile = OldFile
    /\ log = <<>>
    /\ mdxContent = Preamble \o Blocks(data.components)

----------------------------------------------------------------------------
(* The accumulator.                                                        *)

\* C27: the load starts mdxContent with the preamble; the k-th iteration of
\* the loop finds it equal to the preamble followed by the blocks of the
\* first k - 1 records and leaves it equal to the preamble followed by the
\* blocks of the first k records, the value before being a proper prefix of
\* the value after; no other step changes it.
C27_AccumulatorGrows ==
    [][/\ (pc = "load" /\ pc' = "render") => mdxContent' = Preamble
       /\ idx' # idx =>
             /\ pc = "render" /\ pc' = "render"
             /\ idx' = idx + 1
             /\ mdxContent = Preamble \o Blocks(SubSeq(data.components, 1, idx))
             /\ mdxContent' = Preamble \o Blocks(SubSeq(data.components, 1, idx'))
             /\ Len(mdxContent) < Len(mdxContent')
             /\ IsPrefix(mdxContent, mdxContent')
       /\ mdxContent' # mdxContent => (pc = "load" \/ idx' # idx)]_vars

\* The second iteration of a loop has been made: the accumulator is the
\* preamble followed by two blocks.
C27_Witness ==
    /\ pc = "render"
    /\ idx = 2
    /\ mdxContent = Preamble \o Block(data.components[1]) \o Block(data.components[2])

----------------------------------------------------------------------------
(* The escaping of the type, read backwards.                               *)

\* The text with every backslash, pipe replaced by a pipe, scanning from
\* left to right.
RECURSIVE UnescapePipes(_)
UnescapePipes(s) ==
    IF s = <<>> THEN <<>>
    ELSE IF Len(s) >= 2 /\ s[1] = "\\" /\ s[2] = "|"
         THEN <<"|">> \o UnescapePipes(SubSeq(s, 3, Len(s)))
         ELSE <<Head(s)>> \o UnescapePipes(Tail(s))

\* C28: for every type, those with backslashes and with backslash, pipe
\* included, replacing each backslash, pipe of the content of the rendered
\* Type cell by a pipe gives back the type, and the content has as many
\* pipes as the type.
C28_EscapingLossless ==
    \A r \in RenderedRows :
        LET content == CellText(CellText(Columns(r.row)[2]))
        IN  /\ UnescapePipes(content) = r.prop.type
            /\ Count(content, "|") = Count(r.prop.type, "|")

\* A row whose type is backslash, pipe has been rendered: the content of its
\* Type cell is backslash, backslash, pipe.
C28_Witness ==
    \E r \in RenderedRows :
        /\ r.prop.type = <<"\\", "|">>
        /\ CellText(CellText(Columns(r.row)[2])) = <<"\\", "\\", "|">>

----------------------------------------------------------------------------
(* The delimiters of a row.                                                *)

\* None of the name, the default value, the option values and the
\* description of the property holds a pipe.
PipeFreeOutsideType(prop) ==
    /\ ~HasChar(prop.name, "|")
    /\ ~HasChar(prop.description, "|")
    /\ "default" \in DOMAIN prop => ~HasChar(ToString(prop.default), "|")
    /\ "options" \in DOMAIN prop =>
          \A i \in 1..Len(prop.options) : ~HasChar(ToString(prop.options[i]), "|")

\* C29: the row of a property whose name, default, option values and
\* description hold no pipe has exactly six pipes that do not follow a
\* backslash, the first at its start and the last at its end, whatever the
\* type is.
C29_SixDelimiters ==
    \A r \in RenderedRows :
        PipeFreeOutsideType(r.prop) =>
            LET ps == UnescapedPipes(r.row)
            IN  /\ Len(ps) = 6
                /\ ps[1] = 1
                /\ ps[6] = Len(r.row)

\* A row of a property with two pipes in its type, a default and three
\* option values, and no pipe elsewhere, has been rendered.
C29_Witness ==
    \E r \in RenderedRows :
        /\ PipeFreeOutsideType(r.prop)
        /\ Count(r.prop.type, "|") = 2
        /\ "default" \in DOMAIN r.prop
        /\ "options" \in DOMAIN r.prop
        /\ Len(r.prop.options) = 3
        /\ Count(r.row, "|") = 8

----------------------------------------------------------------------------
(* The wrappers and the trailing separator.                                *)

OpenTag == <<"<", "d", "e", "t", "a", "i", "l", "s", ">">>
CloseTag == <<"<", "/", "d", "e", "t", "a", "i", "l", "s", ">">>

\* The wrapper tags of the text s in the order they come: TRUE for an
\* opening tag, FALSE for a closing one.
WrapperTags(s) ==
    LET at == Positions(s, LAMBDA i :
                  \/ i + Len(OpenTag) - 1 <= Len(s)
                        /\ SubSeq(s, i, i + Len(OpenTag) - 1) = OpenTag
                  \/ i + Len(CloseTag) - 1 <= Len(s)
                        /\ SubSeq(s, i, i + Len(CloseTag) - 1) = CloseTag)
    IN  [j \in 1..Len(at) |-> s[at[j] + 1] # "/"]

\* The wrapper tags of the preamble.
PreambleTags == WrapperTags(Preamble)

\* C30: the preamble holds no wrapper tag; after N iterations the appended
\* text holds N opening and N closing tags, alternating from an opening one,
\* so that each wrapper is closed before the next is opened; and when N is
\* at least 1 the output ends with the separator line and its line break.
C30_WrappersBalanced ==
    /\ PreambleTags = <<>>
    /\ pc = "render" =>
          LET tags == WrapperTags(OutputTail)
              n == Len(mdxContent)
          IN  /\ Len(tags) = 2 * idx
              /\ \A j \in 1..Len(tags) : tags[j] = (j % 2 = 1)
              /\ idx >= 1 =>
                    SubSeq(mdxContent, n - 4, n) = <<"\n", "-", "-", "-", "\n">>

\* Two records have been rendered: four wrapper tags and the separator at
\* the end of the accumulator.
C30_Witness ==
    /\ pc = "render"
    /\ idx = 2
    /\ WrapperTags(OutputTail) = <<TRUE, FALSE, TRUE, FALSE>>
    /\ mdxContent[Len(mdxContent) - 1] = "-"

====
